---- MODULE Spec2Model ----
(***************************************************************************)
(* Model of the SaskPower smart-meter scraper: the Azure B2C login flow    *)
(* (SaskPowerScraper.login) and the retrieval cycle                        *)
(* (SaskPowerScraper.get_data).  The repository carries two revisions of   *)
(* the scraper: custom_components/saskpower_smartmeter/scraper.py          *)
(* ("component") and the top-level scraper.py ("legacy").  Both are        *)
(* modelled; the variable rev selects the revision that runs.              *)
(*                                                                         *)
(* One action is one HTTP request together with all the code that runs on  *)
(* its response up to the next request or the return of the call.  The     *)
(* server is an uncontrolled third party: every response is drawn from a   *)
(* small set of shapes.                                                    *)
(*                                                                         *)
(* Strings the code searches with the `in` operator or with a regular      *)
(* expression are modelled as sequences of tokens, and the search as a     *)
(* search for a contiguous run of tokens.                                  *)
(***************************************************************************)
EXTENDS Integers, Sequences, FiniteSets, TLC

VARIABLES
    rev,                \* which revision of scraper.py runs
    calls,              \* number of login()/get_data() calls made so far
    pc,                 \* position of the running call
    caller,             \* "login" (direct call) or "get_data"
    cookies,            \* self._session.cookies, as the set of cookie domains
    fresh,              \* cookie domains set by responses of the current attempt
    reqs,               \* HTTP requests issued by the current call, in order
    response,           \* response local of login(): the answer of step 1
    csrf_token,         \* csrf_token local of login()
    trans_id,           \* trans_id local of login()
    policy,             \* policy local of login()
    auth_response,      \* body of auth_response, the answer of step 3
    confirmed_response, \* confirmed_response, the answer of step 4
    form_action,        \* form_action local of login()
    form_data,          \* form_data local of login()
    final_url,          \* final_response.url of step 5
    loginResult,        \* return value of login(): "none" while running
    loginFail,          \* the return False / except branch taken, and its step
    page_tags,          \* <input> tags of the download page fetched this cycle
    verification_token, \* verification_token local of get_data()
    http,               \* outcome of each request of this call: "ok" or "error"
    today,              \* the current date in the provider's zone
    usage_data,         \* usage_data local of get_data()
    billing_data,       \* billing_data local of get_data()
    usage_stats,        \* usage_stats local of get_data()
    billing_stats,      \* billing_stats local of get_data()
    result,             \* return value of get_data()
    now,                \* datetime.now(timezone.utc), in minutes
    backfill_days,      \* config["backfill_days"]
    coordinator_data,   \* coordinator.data
    updates,            \* number of coordinator refreshes after the first
    added,              \* statistics sensors added to hass
    tasks,              \* _async_handle_statistics_update() coroutines in flight
    statistics,         \* the recorder's long-term statistics of each sensor
    recorder_queue,     \* import tasks queued on the recorder
    native_value,       \* _attr_native_value of each statistics sensor
    last_import,        \* the last _import_statistics() run of each sensor
    entry,              \* the ConfigEntry: its data and its options
    update_interval,    \* update_interval of the coordinator, in hours
    setup               \* what the last async_setup_entry() found, while loaded

vars == <<rev, calls, pc, caller, cookies, fresh, reqs, response,
          csrf_token, trans_id, policy, auth_response, confirmed_response,
          form_action, form_data, final_url,
          loginResult, loginFail, page_tags, verification_token,
          http, today, usage_data, billing_data,
          usage_stats, billing_stats, result,
          now, backfill_days, coordinator_data, updates, added, tasks,
          statistics, recorder_queue, native_value, last_import,
          entry, update_interval, setup>>

\* The config entry and what async_setup_entry() made of it
settings == <<entry, update_interval, setup>>

\* entry.options before the options form was ever saved
NoOptions == [saved |-> FALSE]

\* A config entry created by async_step_user()
Entry(days, hours) ==
    [data |-> [backfill_days |-> days, update_interval_hours |-> hours],
     options |-> NoOptions]

\* The entry is not set up
NotSetUp == [loaded |-> FALSE]

\* The entry was set up from its data
SetUpFrom(days, hours) ==
    /\ entry = Entry(days, hours)
    /\ update_interval = hours
    /\ setup = [loaded |-> TRUE, options |-> NoOptions]

\* The state of the statistics sensors
importer == <<now, backfill_days, coordinator_data, updates, added, tasks,
              statistics, recorder_queue, native_value, last_import>>

\* The statistics sensors: SaskPowerTotalConsumptionSensor and
\* SaskPowerTotalCostSensor
Sensors == {"consumption", "cost"}

\* No statistics sensor is set up
NoSensors ==
    /\ now = 0
    /\ backfill_days = 30
    /\ coordinator_data = [present |-> FALSE]
    /\ updates = 0
    /\ added = {}
    /\ tasks = <<>>
    /\ statistics = [s \in Sensors |-> {}]
    /\ recorder_queue = <<>>
    /\ native_value = [s \in Sensors |-> [set |-> FALSE]]
    /\ last_import = [s \in Sensors |-> [ran |-> FALSE]]
    /\ SetUpFrom(30, 24)

\* Number of login()/get_data() calls explored.
MaxCalls == 2

----------------------------------------------------------------------------
(* Strings as token sequences *)

\* needle in hay (Python `in` on strings), on token sequences
IsInfix(needle, hay) ==
    \E i \in 0..(Len(hay) - Len(needle)) :
        SubSeq(hay, i + 1, i + Len(needle)) = needle

\* A URL is [host, path, p, ret]: host, path segments, the value of the query
\* parameter p ("" when absent) and the tokens of one further query value.
UrlParts(url) == {<<url.host>>, url.path, <<url.p>>, url.ret}

\* needle in url
InUrl(needle, url) == \E part \in UrlParts(url) : IsInfix(needle, part)

_BASE_HOST == "www.saskpower.com"
_B2C_TENANT_HOST == "saskpowerb2c.b2clogin.com"
_DASHBOARD_PATH == <<"profile", "my-dashboard">>
LegacyDashboardMark == <<"my-dashboard">>
LegacyCookieDomain == ".saskpower.com"
LegacyDefaultPolicy == "b2c_1a_accountlink_signuporsignin"
TokenFieldName == "__RequestVerificationToken"

\* A cookie domain as its labels; `_BASE_URL.replace("https://", "") in d`
DomainLabels(d) ==
    CASE d = "www.saskpower.com" -> <<"www", "saskpower", "com">>
      [] d = ".saskpower.com" -> <<"", "saskpower", "com">>
      [] d = "saskpowerb2c.b2clogin.com" -> <<"saskpowerb2c", "b2clogin", "com">>
      [] OTHER -> <<d>>

CookieDomains == {"www.saskpower.com", ".saskpower.com", "saskpowerb2c.b2clogin.com"}

----------------------------------------------------------------------------
(* HTML <input> tags: a tag is the sequence of its attributes [k, v], in the *)
(* order they are written.                                                   *)

Attr(k, v) == [k |-> k, v |-> v]

\* indices of the attributes a regex `key=["']([^"']+)["']` can match
NonEmptyIdx(tag, key) == {i \in 1..Len(tag) : tag[i].k = key /\ tag[i].v # ""}

\* indices of the attributes a regex `key=["']([^"']*)["']` can match
AnyIdx(tag, key) == {i \in 1..Len(tag) : tag[i].k = key}

Min(S) == CHOOSE x \in S : \A y \in S : x <= y
Max(S) == CHOOSE x \in S : \A y \in S : x >= y

\* re.search(...) on the attributes of one tag: the leftmost match, or
\* [found |-> FALSE]
FirstMatch(tag, idx) ==
    IF idx = {} THEN [found |-> FALSE, v |-> ""]
    ELSE [found |-> TRUE, v |-> tag[Min(idx)].v]

\* d with key k set to v (dict item assignment)
Put(d, k, v) == [x \in DOMAIN d \cup {k} |-> IF x = k THEN v ELSE d[x]]

EmptyDict == [x \in {} |-> ""]

\* d.get(k), "" standing for None
Get(d, k) == IF k \in DOMAIN d THEN d[k] ELSE ""

\* _parse_form_inputs: every tag on its own, name and value looked up
\* independently of their order; a later tag of the same name overwrites
RECURSIVE _parse_form_inputs(_)
_parse_form_inputs(tags) ==
    IF tags = <<>> THEN EmptyDict
    ELSE LET n == Len(tags)
             inputs == _parse_form_inputs(SubSeq(tags, 1, n - 1))
             name_match == FirstMatch(tags[n], NonEmptyIdx(tags[n], "name"))
             value_match == FirstMatch(tags[n], AnyIdx(tags[n], "value"))
         IN  IF name_match.found
             THEN Put(inputs, name_match.v,
                      IF value_match.found THEN value_match.v ELSE "")
             ELSE inputs

\* The legacy revision: one regex `<input[^>]+name=..[^>]+value=..` per tag,
\* which matches only when a name attribute is written before a value
\* attribute (both quantifiers greedy: the last such name, the last value).
LegacyNameIdx(tag) ==
    {i \in NonEmptyIdx(tag, "name") : \E j \in AnyIdx(tag, "value") : j > i}

RECURSIVE LegacyParseInputs(_)
LegacyParseInputs(tags) ==
    IF tags = <<>> THEN EmptyDict
    ELSE LET n == Len(tags)
             inputs == LegacyParseInputs(SubSeq(tags, 1, n - 1))
             tag == tags[n]
         IN  IF LegacyNameIdx(tag) = {} THEN inputs
             ELSE Put(inputs, tag[Max(LegacyNameIdx(tag))].v,
                      tag[Max(AnyIdx(tag, "value"))].v)

ParseInputs(r, tags) ==
    IF r = "component" THEN _parse_form_inputs(tags) ELSE LegacyParseInputs(tags)

\* _get_verification_token: the first tag named __RequestVerificationToken
\* that has a non-empty value, "" standing for None
RECURSIVE _get_verification_token(_)
_get_verification_token(tags) ==
    IF tags = <<>> THEN ""
    ELSE LET name_match == FirstMatch(tags[1], NonEmptyIdx(tags[1], "name"))
             value_match == FirstMatch(tags[1], NonEmptyIdx(tags[1], "value"))
         IN  IF name_match.found /\ name_match.v = TokenFieldName
                /\ value_match.found
             THEN value_match.v
             ELSE _get_verification_token(Tail(tags))

\* The legacy revision: one regex name=..\s+type="hidden"\s+value=.. over the
\* page: the three attributes adjacent and in that order
LegacyTokenIdx(tag) ==
    {i \in 1..(Len(tag) - 2) :
        /\ tag[i] = Attr("name", TokenFieldName)
        /\ tag[i + 1] = Attr("type", "hidden")
        /\ tag[i + 2].k = "value" /\ tag[i + 2].v # ""}

RECURSIVE LegacyTokenMatch(_)
LegacyTokenMatch(tags) ==
    IF tags = <<>> THEN ""
    ELSE IF LegacyTokenIdx(tags[1]) # {}
         THEN tags[1][Min(LegacyTokenIdx(tags[1])) + 2].v
         ELSE LegacyTokenMatch(Tail(tags))

GetVerificationToken(r, tags) ==
    IF r = "component" THEN _get_verification_token(tags) ELSE LegacyTokenMatch(tags)

----------------------------------------------------------------------------
(* What the servers can answer *)

Url(host, path, p, ret) == [host |-> host, path |-> path, p |-> p, ret |-> ret]

NoUrl == Url("", <<>>, "", <<>>)

\* URLs the redirect chain of step 1 can end on
Step1Urls ==
    { Url(_B2C_TENANT_HOST, <<"saskpowerb2c.onmicrosoft.com", "oauth2">>, "b2c_1a_signin", <<>>),
      Url(_B2C_TENANT_HOST, <<"saskpowerb2c.onmicrosoft.com", "oauth2">>, "", <<>>),
      Url(_B2C_TENANT_HOST, <<>>, "", <<>>),
      Url(_BASE_HOST, <<"identity", "error">>, "b2c_1a_signin", <<_B2C_TENANT_HOST>>),
      Url(_BASE_HOST, <<"identity", "externallogin">>, "", <<_BASE_HOST, "profile", "my-dashboard">>) }

\* The `var SETTINGS = {...};` block of the page: present or not, with the
\* values of "csrf" and "transId" ("" when the key is absent or empty)
Settings(present, csrf, transId) ==
    [present |-> present, csrf |-> csrf, transId |-> transId]

Step1Pages ==
    { Settings(TRUE, "csrf1", "tx1"), Settings(TRUE, "", "tx1"),
      Settings(TRUE, "csrf1", ""), Settings(FALSE, "", "") }

\* Cookies a response (and the redirects behind it) can set
CookieSets == {{}, {"saskpowerb2c.b2clogin.com"}, {"www.saskpower.com"}, {".saskpower.com"}}

Step1Responses ==
    [http : {"ok"}, url : Step1Urls, page : Step1Pages, set_cookies : CookieSets]
    \cup [http : {"error"}, url : {NoUrl}, page : {Settings(FALSE, "", "")},
          set_cookies : CookieSets]

\* The body of the SelfAsserted answer: not JSON at all, or JSON whose
\* "status" is the string "200", the number 200, another string, or missing
Step3Bodies == {"notjson", "str:200", "int:200", "str:400", "missing"}

Step3Responses ==
    [http : {"ok"}, body : Step3Bodies] \cup [http : {"error"}, body : {"notjson"}]

IdTokenTag(v) == <<Attr("type", "hidden"), Attr("name", "id_token"), Attr("value", v)>>
IdTokenTagValueFirst(v) == <<Attr("value", v), Attr("name", "id_token"), Attr("type", "hidden")>>
StateTag == <<Attr("name", "state"), Attr("value", "st1")>>

\* The confirmation page: the action of its <form> (<<>> when there is no
\* form), as tokens, and its <input> tags
ConfirmPage(action, tags) == [action |-> action, tags |-> tags]

ConfirmPages ==
    { ConfirmPage(<<"callback", "&amp;", "x">>, <<IdTokenTag("jwt1"), StateTag>>),
      ConfirmPage(<<"callback">>, <<StateTag, IdTokenTagValueFirst("jwt1")>>),
      ConfirmPage(<<"callback">>, <<IdTokenTag(""), StateTag>>),
      ConfirmPage(<<"callback">>, <<StateTag>>),
      ConfirmPage(<<>>, <<IdTokenTag("jwt1"), StateTag>>) }

Step4Responses ==
    [http : {"ok"}, page : ConfirmPages]
    \cup [http : {"error"}, page : {ConfirmPage(<<>>, <<>>)}]

\* URLs the redirect chain of step 5 can end on
FinalUrls ==
    { Url(_BASE_HOST, <<"profile", "my-dashboard">>, "", <<>>),
      Url(_BASE_HOST, <<"maintenance">>, "", <<>>),
      Url(_B2C_TENANT_HOST, <<"saskpowerb2c.onmicrosoft.com", "error">>, "b2c_1a_signin", <<>>) }

Step5Responses ==
    [http : {"ok"}, url : FinalUrls, set_cookies : CookieSets]
    \cup [http : {"error"}, url : {NoUrl}, set_cookies : CookieSets]

TokenTag(v) == <<Attr("name", TokenFieldName), Attr("type", "hidden"), Attr("value", v)>>
TokenTagTypeFirst(v) == <<Attr("type", "hidden"), Attr("name", TokenFieldName), Attr("value", v)>>

\* The <input> tags of the download page
DownloadPages ==
    { <<TokenTag("rvt1")>>, <<TokenTag("rvt2")>>, <<TokenTagTypeFirst("rvt1")>>,
      <<TokenTag(""), TokenTag("rvt2")>>, <<StateTag>>, <<>> }

PageResponses ==
    [http : {"ok"}, tags : DownloadPages] \cup [http : {"error"}, tags : {<<>>}]

----------------------------------------------------------------------------
(* Calendar dates and reading times, as datetime computes with them *)

Date(y, m, d) == [y |-> y, m |-> m, d |-> d]

IsLeap(y) == (y % 4 = 0 /\ y % 100 # 0) \/ y % 400 = 0

DaysInMonth(y, m) ==
    IF m = 2 THEN (IF IsLeap(y) THEN 29 ELSE 28)
    ELSE IF m \in {4, 6, 9, 11} THEN 30 ELSE 31

\* d - timedelta(days=1)
PrevDay(d) ==
    IF d.d > 1 THEN Date(d.y, d.m, d.d - 1)
    ELSE IF d.m > 1 THEN Date(d.y, d.m - 1, DaysInMonth(d.y, d.m - 1))
    ELSE Date(d.y - 1, 12, 31)

\* d - timedelta(days=n)
RECURSIVE MinusDays(_, _)
MinusDays(d, n) == IF n = 0 THEN d ELSE MinusDays(PrevDay(d), n - 1)

\* fetch_days of get_data(): max(60, backfill_days + 5) as async_update_data()
\* passes it, the fixed timedelta(days=60) of the legacy revision
FetchDays(r, days) ==
    IF r = "component" THEN (IF days + 5 > 60 THEN days + 5 ELSE 60) ELSE 60

\* The order of dates (d1 <= d2 iff DateKey(d1) <= DateKey(d2))
DateKey(d) == (d.y * 12 + d.m) * 32 + d.d

\* The number of days from 1 January 2023 to a date
DaysBeforeMonth(y, m) ==
    <<0, 31, 59, 90, 120, 151, 181, 212, 243, 273, 304, 334>>[m]
        + (IF m > 2 /\ IsLeap(y) THEN 1 ELSE 0)

RECURSIVE DaysBeforeYear(_)
DaysBeforeYear(y) ==
    IF y <= 2023 THEN 0
    ELSE DaysBeforeYear(y - 1) + (IF IsLeap(y - 1) THEN 366 ELSE 365)

Ordinal(d) == DaysBeforeYear(d.y) + DaysBeforeMonth(d.y, d.m) + d.d

\* start_date = end_date - timedelta(days=fetch_days), as the number of its day
StartDate(r, end_date, days) == Ordinal(end_date) - FetchDays(r, days)

\* Quarter hours of a day: a reading's time of day is its slot 0..95
QuarterHours == 24 * 4

\* An aware datetime in the provider's zone: a date and a quarter-hour slot
DateTime(date, slot) == [date |-> date, slot |-> slot]

NoDateTime == DateTime(Date(0, 0, 0), 0)

\* The order of datetimes
DtKey(dt) == DateKey(dt.date) * QuarterHours + dt.slot

----------------------------------------------------------------------------
(* Rows of a usage export, as csv.DictReader hands them over *)

\* A cell of a row: a string that parses ("ok", to num or to dt), a string
\* that does not ("text"), the None of a line shorter than the header
\* ("none"), or no such key because the header lacks the column ("missing").
\* Consumption is counted in ten-thousandths of a kWh.
Cell(kind, num, dt) == [kind |-> kind, num |-> num, dt |-> dt]

Number(u) == Cell("ok", u, NoDateTime)
Stamp(date, slot) == Cell("ok", 0, DateTime(date, slot))
Text == Cell("text", 0, NoDateTime)
Blank == Cell("none", 0, NoDateTime)
NoColumn == Cell("missing", 0, NoDateTime)

Row(c, t) == [Consumption |-> c, DateTime |-> t]

\* Usage exports of a few rows: a well-formed row, a row whose Consumption
\* is not a number, a line cut short after its Consumption
UsageFiles ==
    { <<>>,
      <<Row(Number(1234), Stamp(Date(2023, 12, 28), 5))>>,
      <<Row(Text, Stamp(Date(2023, 12, 28), 5))>>,
      <<Row(Number(1234), Stamp(Date(2023, 12, 28), 5)),
        Row(Text, Stamp(Date(2023, 12, 28), 6))>>,
      <<Row(Number(1234), Stamp(Date(2023, 12, 28), 5)), Row(Number(40), Blank)>> }

\* "today" of the cycles explored
CycleTodays == {Date(2024, 1, 10)}

----------------------------------------------------------------------------
(* Answers to the report downloads *)

\* The archive of a download answer: no bytes at all, bytes that are not a
\* zip, or a zip with or without a .csv member holding the given rows
Archive(kind, csv, rows) == [kind |-> kind, csv |-> csv, rows |-> rows]

\* A number written with a currency sign or with thousands separators
\* ("$1,234.56"): float() takes it only once they are stripped
Money(u) == Cell("money", u, NoDateTime)

\* An issue date ("15-Jan-2024")
IssueDate(date) == Cell("ok", 0, DateTime(date, 0))

\* A row of a billing export; TotalCharges is counted in cents,
\* ConsumptionKwh in kWh
BillRow(d, c, u) == [BillIssueDate |-> d, TotalCharges |-> c, ConsumptionKwh |-> u]

\* Billing exports of a few rows: one bill, a bill and a row whose issue
\* date does not parse, a file without the BillIssueDate column, a bill
\* and a line cut short before its issue date
BillingFiles ==
    { <<>>,
      <<BillRow(IssueDate(Date(2024, 1, 15)), Money(12345), Number(500))>>,
      <<BillRow(IssueDate(Date(2024, 1, 15)), Money(12345), Number(500)),
        BillRow(Text, Number(9000), Number(300))>>,
      <<BillRow(NoColumn, Number(9000), Number(300))>>,
      <<BillRow(IssueDate(Date(2024, 1, 15)), Money(12345), Number(500)),
        BillRow(Blank, Blank, Number(300))>> }

Archives(files) ==
    { Archive("empty", FALSE, <<>>), Archive("corrupt", FALSE, <<>>),
      Archive("zip", FALSE, <<>>) }
    \cup { Archive("zip", TRUE, f) : f \in files }

\* A download answer: Content-Type, the NoDataAvailable flag of a JSON
\* envelope, whether the JSON parses, and the archive carried
FetchResponses(files) ==
    [http : {"ok"}, ctype : {"application/zip"}, json_ok : {TRUE},
     no_data : {FALSE}, archive : Archives(files)]
    \cup [http : {"ok"}, ctype : {"application/json"}, json_ok : {TRUE},
          no_data : {TRUE, FALSE}, archive : Archives(files)]
    \cup [http : {"ok"}, ctype : {"application/json", "text/html"}, json_ok : {FALSE},
          no_data : {FALSE}, archive : {Archive("empty", FALSE, <<>>)}]
    \cup [http : {"error"}, ctype : {"text/html"}, json_ok : {FALSE},
          no_data : {FALSE}, archive : {Archive("empty", FALSE, <<>>)}]

----------------------------------------------------------------------------
(* The code that runs on each response *)

\* A failure of login(): the step of the flow (1 to 6) and the branch taken
Fail(step, why) == [step |-> step, why |-> why]

NoFail == Fail(0, "")

Failed(step, why) == [fail |-> Fail(step, why), csrf |-> "", tx |-> "", policy |-> ""]

\* The policy name: the query parameter p, else (legacy only) the first path
\* segment of the URL, else (legacy only, IndexError) a hardcoded name
PolicyOf(r, url) ==
    IF url.p # "" THEN url.p
    ELSE IF r = "component" THEN ""
    ELSE IF url.path # <<>> THEN url.path[1]
    ELSE LegacyDefaultPolicy

\* A token check that fails only when both tokens are missing
Step1OutcomeBothMissing(r, resp) ==
    IF resp.http = "error" THEN Failed(1, "network")
    ELSE IF ~InUrl(<<_B2C_TENANT_HOST>>, resp.url) THEN Failed(1, "redirect")
    ELSE IF ~resp.page.present THEN Failed(2, "settings")
    ELSE IF resp.page.csrf = "" /\ resp.page.transId = "" THEN Failed(2, "tokens")
    ELSE IF PolicyOf(r, resp.url) = "" /\ r = "component" THEN Failed(2, "policy")
    ELSE [fail |-> NoFail, csrf |-> resp.page.csrf, tx |-> resp.page.transId,
          policy |-> PolicyOf(r, resp.url)]

\* login(), from the answer of the step-1 POST to the step-3 request
Step1Outcome(r, resp) ==
    IF resp.http = "error" THEN Failed(1, "network")
    ELSE IF ~InUrl(<<_B2C_TENANT_HOST>>, resp.url) THEN Failed(1, "redirect")
    ELSE IF ~resp.page.present THEN Failed(2, "settings")
    ELSE IF resp.page.csrf = "" \/ resp.page.transId = "" THEN Failed(2, "tokens")
    ELSE IF PolicyOf(r, resp.url) = "" /\ r = "component" THEN Failed(2, "policy")
    ELSE [fail |-> NoFail, csrf |-> resp.page.csrf, tx |-> resp.page.transId,
          policy |-> PolicyOf(r, resp.url)]

\* A status check that also takes the number 200
Step3OutcomeLoose(resp) ==
    IF resp.http = "error" THEN Fail(3, "network")
    ELSE IF resp.body = "notjson" THEN Fail(3, "exception")
    ELSE IF resp.body \notin {"str:200", "int:200"} THEN Fail(3, "rejected")
    ELSE NoFail

\* login(), on the answer of the step-3 POST
Step3Outcome(resp) ==
    IF resp.http = "error" THEN Fail(3, "network")
    ELSE IF resp.body = "notjson" THEN Fail(3, "exception")
    ELSE IF resp.body # "str:200" THEN Fail(3, "rejected")
    ELSE NoFail

\* form_action_match.group(1).replace("&amp;", "&")
RECURSIVE Unescape(_)
Unescape(action) ==
    IF action = <<>> THEN <<>>
    ELSE <<IF Head(action) = "&amp;" THEN "&" ELSE Head(action)>> \o Unescape(Tail(action))

\* A form check that asks for the id_token key only, not for its value
Step4OutcomeKeyOnly(r, resp) ==
    IF resp.http = "error" THEN Fail(4, "network")
    ELSE IF resp.page.action = <<>> THEN Fail(5, "noform")
    ELSE IF "id_token" \notin DOMAIN ParseInputs(r, resp.page.tags) THEN Fail(5, "noidtoken")
    ELSE NoFail

\* login(), from the answer of the step-4 GET to the step-5 request
Step4Outcome(r, resp) ==
    IF resp.http = "error" THEN Fail(4, "network")
    ELSE IF resp.page.action = <<>> THEN Fail(5, "noform")
    ELSE IF Get(ParseInputs(r, resp.page.tags), "id_token") = "" THEN Fail(5, "noidtoken")
    ELSE NoFail

\* A fallback that is content with any cookie in the jar
LoginCompletedAnyCookie(r, url, jar) ==
    IF r = "component"
    THEN InUrl(_DASHBOARD_PATH, url) \/ jar # {}
    ELSE InUrl(LegacyDashboardMark, url) \/ jar # {}

\* The success criterion of login() on the final URL and the cookie jar
LoginCompleted(r, url, jar) ==
    IF r = "component"
    THEN \/ InUrl(_DASHBOARD_PATH, url)
         \/ \E d \in jar : IsInfix(DomainLabels(_BASE_HOST), DomainLabels(d))
    ELSE \/ InUrl(LegacyDashboardMark, url)
         \/ LegacyCookieDomain \in jar

\* login(), on the answer of the step-5 POST
Step5Outcome(r, resp, jar) ==
    IF resp.http = "error" THEN Fail(5, "network")
    ELSE IF ~LoginCompleted(r, resp.url, jar) THEN Fail(6, "incomplete")
    ELSE NoFail

\* _fetch_data_from_api on its answer: it raises, returns None, or returns
\* the rows of the .csv member; "why" names the statement that ends it
Fetched(kind, why, rows) == [kind |-> kind, why |-> why, rows |-> rows]

\* No fetch made yet
NotFetched == Fetched("unset", "", <<>>)

\* A fetch that raises where the category has nothing to give
FetchRaisesWhenNothing(r, resp) ==
    IF resp.http = "error" THEN Fetched("raise", "http", <<>>)
    ELSE IF resp.ctype = "application/json" /\ ~resp.json_ok
         THEN Fetched("raise", "json", <<>>)
    ELSE IF resp.ctype = "application/json" /\ resp.no_data
         THEN Fetched("raise", "nodata", <<>>)
    ELSE IF resp.ctype \notin {"application/json", "application/zip"}
         THEN Fetched("raise", "ctype", <<>>)
    ELSE IF resp.archive.kind = "empty" THEN Fetched("raise", "empty", <<>>)
    ELSE IF resp.archive.kind = "corrupt" THEN Fetched("raise", "corrupt", <<>>)
    ELSE IF ~resp.archive.csv THEN Fetched("raise", "nocsv", <<>>)
    ELSE Fetched("rows", "csv", resp.archive.rows)

_fetch_data_from_api(r, resp) ==
    IF resp.http = "error" THEN Fetched("raise", "http", <<>>)
    ELSE IF resp.ctype = "application/json" /\ ~resp.json_ok
         THEN Fetched("raise", "json", <<>>)
    ELSE IF resp.ctype = "application/json" /\ resp.no_data
         THEN Fetched("none", "nodata", <<>>)
    ELSE IF resp.ctype \notin {"application/json", "application/zip"}
         THEN Fetched("none", "ctype", <<>>)
    ELSE IF resp.archive.kind = "empty"
         THEN IF r = "component" THEN Fetched("none", "empty", <<>>)
              ELSE Fetched("raise", "empty", <<>>)
    ELSE IF resp.archive.kind = "corrupt" THEN Fetched("raise", "corrupt", <<>>)
    ELSE IF ~resp.archive.csv THEN Fetched("none", "nocsv", <<>>)
    ELSE Fetched("rows", "csv", resp.archive.rows)

----------------------------------------------------------------------------
(* get_data(), the usage block *)

\* A full day has 96 readings
FullDayReadings == 96

\* The exception float(row["Consumption"]) raises, "" when it returns
UsageError(r, row) ==
    IF row.Consumption.kind = "missing"
    THEN (IF r = "component" THEN "KeyError" ELSE "TypeError")
    ELSE IF row.Consumption.kind = "none" THEN "TypeError"
    ELSE IF row.Consumption.kind = "text" THEN "ValueError"
    ELSE ""

\* The exception the parse of row["DateTime"] raises, "" when it returns
DateTimeError(r, row) ==
    IF row.DateTime.kind = "missing"
    THEN (IF r = "component" THEN "KeyError" ELSE "AttributeError")
    ELSE IF row.DateTime.kind = "none" THEN "AttributeError"
    ELSE IF row.DateTime.kind = "text" THEN "ValueError"
    ELSE ""

\* The exception the body of the loop raises on a row: Consumption is
\* converted first
RowError(r, row) ==
    IF UsageError(r, row) # "" THEN UsageError(r, row) ELSE DateTimeError(r, row)

\* The exceptions the loop catches, skipping the row
Caught(r) ==
    IF r = "component" THEN {"ValueError", "TypeError", "KeyError"}
    ELSE {"ValueError", "TypeError", "AttributeError"}

\* Some row raises an exception the loop does not catch
UsageRaises(r, rows) ==
    \E i \in 1..Len(rows) : RowError(r, rows[i]) \notin Caught(r) \cup {""}

Reading(row) == [datetime |-> row.DateTime.dt, usage |-> row.Consumption.num]

\* The readings appended by the loop, in the order of the rows
Readings(r, rows) ==
    LET Parses(row) == RowError(r, row) = ""
        kept == SelectSeq(rows, Parses)
    IN  [i \in 1..Len(kept) |-> Reading(kept[i])]

\* sum() of a list of numbers
RECURSIVE SumRange(_, _, _)
SumRange(xs, lo, hi) ==
    IF lo > hi THEN 0
    ELSE IF lo = hi THEN xs[lo]
    ELSE LET mid == (lo + hi) \div 2 IN SumRange(xs, lo, mid) + SumRange(xs, mid + 1, hi)

Sum(xs) == SumRange(xs, 1, Len(xs))

SumUsage(readings) == Sum([i \in 1..Len(readings) |-> readings[i].usage])

\* data_by_day: its keys, and the readings filed under a set of its keys
Days(readings) == { readings[i].datetime.date : i \in 1..Len(readings) }

ReadingsOn(readings, days) ==
    LET On(x) == x.datetime.date \in days IN SelectSeq(readings, On)

\* total_consumption of the legacy revision: every Consumption that
\* converts is added before the DateTime of its row is parsed
TotalConsumption(r, rows) ==
    Sum([i \in 1..Len(rows) |->
            IF UsageError(r, rows[i]) = "" THEN rows[i].Consumption.num ELSE 0])

\* interval_readings.sort(key=datetime)
SortByDateTime(readings) ==
    LET Earlier(x, y) == DtKey(x.datetime) < DtKey(y.datetime) IN
    SortSeq(readings, Earlier)

\* latest_reading_dt: the datetime no reading exceeds
RECURSIVE LatestIn(_, _, _)
LatestIn(readings, lo, hi) ==
    IF lo = hi THEN readings[lo].datetime
    ELSE LET mid == (lo + hi) \div 2
             a == LatestIn(readings, lo, mid)
             b == LatestIn(readings, mid + 1, hi)
         IN  IF DtKey(b) > DtKey(a) THEN b ELSE a

LatestDateTime(readings) ==
    IF readings = <<>> THEN NoDateTime ELSE LatestIn(readings, 1, Len(readings))

Day(has, date) == [has |-> has, date |-> date]

NoDay == Day(FALSE, Date(0, 0, 0))

\* The latest key of data_by_day, whatever it holds
MostRecentDay(readings) ==
    IF readings = <<>> THEN NoDay
    ELSE Day(TRUE, CHOOSE d \in Days(readings) :
                       \A e \in Days(readings) : DateKey(e) <= DateKey(d))

\* most_recent_full_day: the first key of data_by_day, latest first, that
\* holds at least 96 readings
MostRecentFullDay(readings) ==
    LET full == { d \in Days(readings) :
                    Len(ReadingsOn(readings, {d})) >= FullDayReadings } IN
    IF full = {} THEN NoDay
    ELSE Day(TRUE, CHOOSE d \in full : \A e \in full : DateKey(e) <= DateKey(d))

\* A week of six days: d - timedelta(days=i) for i in range(6)
SixDaysTo(d) == { MinusDays(d, i) : i \in 0..5 }

\* The days the weekly sum looks at without the day itself
WeekBefore(d) == { MinusDays(d, i) : i \in 1..6 }

\* The days the weekly sum looks at: d - timedelta(days=i) for i in range(7)
WeekOf(d) == { MinusDays(d, i) : i \in 0..6 }

Span(first, last) == [first |-> first, last |-> last]

\* The month of "today" itself
ThisMonth(t) == Span(Date(t.y, t.m, 1), Date(t.y, t.m, DaysInMonth(t.y, t.m)))

\* first_day_prev_month and last_day_prev_month
PrevMonth(t) ==
    LET last_day_prev_month == PrevDay(Date(t.y, t.m, 1)) IN
    Span(Date(last_day_prev_month.y, last_day_prev_month.m, 1), last_day_prev_month)

InSpan(d, span) ==
    DateKey(span.first) <= DateKey(d) /\ DateKey(d) <= DateKey(span.last)

\* round(x, 3) of a number counted in ten-thousandths: the nearest
\* thousandth, the even one of two equally near
Round3(x) ==
    LET q == x \div 10
        rem == x % 10
    IN  IF rem < 5 THEN q * 10
        ELSE IF rem > 5 THEN (q + 1) * 10
        ELSE IF q % 2 = 0 THEN q * 10 ELSE (q + 1) * 10

Stats(present, daily, weekly, monthly, latest, readings, total) ==
    [present |-> present, daily_usage |-> daily, weekly_usage |-> weekly,
     monthly_usage |-> monthly, latest_data_timestamp |-> latest,
     interval_readings |-> readings, total_consumption |-> total]

\* usage_stats = {}
NoUsage == Stats(FALSE, 0, 0, 0, NoDateTime, <<>>, 0)

\* usage_stats of a list of rows no row of which raises out of the loop.
\* The component revision has interval_readings and no total_consumption,
\* the legacy revision total_consumption and no interval_readings.
UsageStats(r, rows, t) ==
    IF rows = <<>> THEN NoUsage
    ELSE LET readings == Readings(r, rows)
             most_recent_full_day == MostRecentFullDay(readings)
             daily_usage ==
                 IF most_recent_full_day.has
                 THEN SumUsage(ReadingsOn(readings, {most_recent_full_day.date}))
                 ELSE 0
             weekly_usage ==
                 IF most_recent_full_day.has
                 THEN SumUsage(ReadingsOn(readings, WeekOf(most_recent_full_day.date)))
                 ELSE 0
             monthly_usage ==
                 SumUsage(ReadingsOn(readings,
                     { d \in Days(readings) : InSpan(d, PrevMonth(t)) }))
         IN  Stats(TRUE, Round3(daily_usage), Round3(weekly_usage),
                   Round3(monthly_usage), LatestDateTime(readings),
                   IF r = "component" THEN SortByDateTime(readings) ELSE <<>>,
                   IF r = "legacy" THEN Round3(TotalConsumption(r, rows)) ELSE 0)

----------------------------------------------------------------------------
(* get_data(), the billing block and the combination *)

\* The exception the parse of row["BillIssueDate"] raises, "" when it returns
IssueDateError(row) ==
    IF row.BillIssueDate.kind = "missing" THEN "KeyError"
    ELSE IF row.BillIssueDate.kind = "none" THEN "AttributeError"
    ELSE IF row.BillIssueDate.kind \in {"text", "money"} THEN "ValueError"
    ELSE ""

\* The exception the conversion of TotalCharges raises: a missing key reads
\* "0", "$" and "," are stripped before float()
ChargesError(row) ==
    IF row.TotalCharges.kind = "none" THEN "AttributeError"
    ELSE IF row.TotalCharges.kind = "text" THEN "ValueError"
    ELSE ""

\* The exception the conversion of ConsumptionKwh raises: a missing key
\* reads 0, nothing is stripped
KwhError(row) ==
    IF row.ConsumptionKwh.kind = "none" THEN "TypeError"
    ELSE IF row.ConsumptionKwh.kind \in {"text", "money"} THEN "ValueError"
    ELSE ""

\* The first row of max() whose key raises, 0 when none does
FirstBadDate(rows) ==
    IF \A i \in 1..Len(rows) : IssueDateError(rows[i]) = "" THEN 0
    ELSE CHOOSE i \in 1..Len(rows) :
             /\ IssueDateError(rows[i]) # ""
             /\ \A j \in 1..(i - 1) : IssueDateError(rows[j]) = ""

\* max(billing_data, key=issue date): the first row no row exceeds
LatestBill(rows) ==
    rows[CHOOSE i \in 1..Len(rows) :
             /\ \A j \in 1..Len(rows) :
                    DateKey(rows[j].BillIssueDate.dt.date) <= DateKey(rows[i].BillIssueDate.dt.date)
             /\ \A j \in 1..(i - 1) :
                    DateKey(rows[j].BillIssueDate.dt.date) < DateKey(rows[i].BillIssueDate.dt.date)]

\* The exception the billing block raises, "" when it runs to its end
BillingError(rows) ==
    IF rows = <<>> \/ rows[1].BillIssueDate.kind = "missing" THEN ""
    ELSE IF FirstBadDate(rows) # 0 THEN IssueDateError(rows[FirstBadDate(rows)])
    ELSE IF ChargesError(LatestBill(rows)) # "" THEN ChargesError(LatestBill(rows))
    ELSE KwhError(LatestBill(rows))

\* The exceptions the billing block catches, leaving billing_stats empty
BillingCaught == {"ValueError", "TypeError", "KeyError"}

\* A billing block that lets the lookup of a column the export lacks
\* propagate
BillingRaisesWithoutColumn(rows) ==
    \/ BillingError(rows) \notin BillingCaught \cup {""}
    \/ rows # <<>> /\ rows[1].BillIssueDate.kind = "missing"

\* The billing block raises an exception it does not catch
BillingRaises(rows) == BillingError(rows) \notin BillingCaught \cup {""}

\* A quotient n / d, d > 0, kept exact as a fraction in lowest terms
RECURSIVE Gcd(_, _)
Gcd(a, b) == IF b = 0 THEN a ELSE Gcd(b, a % b)

Abs(n) == IF n < 0 THEN 0 - n ELSE n

Ratio(n, d) ==
    LET g == Gcd(Abs(n), d) IN [num |-> n \div g, den |-> d \div g]

ZeroRatio == [num |-> 0, den |-> 1]

\* round(n / d) to the nearest whole, d > 0, the even one of two equally near
RoundDiv(n, d) ==
    LET q == n \div d
        rem == n % d
    IN  IF 2 * rem < d THEN q
        ELSE IF 2 * rem > d THEN q + 1
        ELSE IF q % 2 = 0 THEN q ELSE q + 1

Bill(keys, charges, usage, avg, cost) ==
    [present |-> keys # {}, keys |-> keys, last_bill_total_charges |-> charges,
     last_bill_total_usage |-> usage, avg_cost_per_kwh |-> avg, total_cost |-> cost]

\* billing_stats = {}
NoStats == Bill({}, 0, 0, ZeroRatio, 0)

\* The number a cell converts to: the default of a missing key is 0
CellNumber(cell) == IF cell.kind \in {"ok", "money"} THEN cell.num ELSE 0

\* A billing block that divides whatever the usage of the bill is not 0
BillingStatsNonZero(r, rows, total) ==
    IF rows = <<>> \/ rows[1].BillIssueDate.kind = "missing" \/ BillingError(rows) # ""
    THEN NoStats
    ELSE LET latest_bill == LatestBill(rows)
             last_bill_charges == CellNumber(latest_bill.TotalCharges)
             last_bill_usage == CellNumber(latest_bill.ConsumptionKwh)
             avg_cost == IF last_bill_usage # 0
                         THEN Ratio(last_bill_charges * (IF last_bill_usage < 0 THEN -1 ELSE 1),
                                    100 * Abs(last_bill_usage))
                         ELSE ZeroRatio
         IN  IF r = "component"
             THEN Bill({"last_bill_total_charges", "last_bill_total_usage",
                        "avg_cost_per_kwh"},
                       last_bill_charges, last_bill_usage, avg_cost, 0)
             ELSE IF last_bill_usage # 0
             THEN Bill({"last_bill_total_charges", "last_bill_total_usage", "total_cost"},
                       last_bill_charges, last_bill_usage, ZeroRatio,
                       RoundDiv(total * avg_cost.num, avg_cost.den * 100))
             ELSE Bill({"last_bill_total_charges", "last_bill_total_usage"},
                       last_bill_charges, last_bill_usage, ZeroRatio, 0)

\* A billing block that takes the first row for the latest bill
BillingStatsFirstRow(r, rows, total) ==
    IF rows = <<>> \/ rows[1].BillIssueDate.kind = "missing" \/ BillingError(rows) # ""
    THEN NoStats
    ELSE Bill({"last_bill_total_charges", "last_bill_total_usage"},
              CellNumber(rows[1].TotalCharges), CellNumber(rows[1].ConsumptionKwh),
              ZeroRatio, 0)

\* get_data(), the billing block, when it does not raise: empty without rows,
\* without the BillIssueDate column, or after an exception it catches; else
\* the charges and usage of the latest bill, with avg_cost_per_kwh (in
\* dollars per kWh) in the component revision and with total_cost (in cents;
\* total is the total consumption in ten-thousandths of a kWh) in the legacy
\* revision
BillingStats(r, rows, total) ==
    IF rows = <<>> \/ rows[1].BillIssueDate.kind = "missing" \/ BillingError(rows) # ""
    THEN NoStats
    ELSE LET latest_bill == LatestBill(rows)
             last_bill_charges == CellNumber(latest_bill.TotalCharges)
             last_bill_usage == CellNumber(latest_bill.ConsumptionKwh)
             avg_cost == IF last_bill_usage > 0
                         THEN Ratio(last_bill_charges, 100 * last_bill_usage)
                         ELSE ZeroRatio
         IN  IF r = "component"
             THEN Bill({"last_bill_total_charges", "last_bill_total_usage",
                        "avg_cost_per_kwh"},
                       last_bill_charges, last_bill_usage, avg_cost, 0)
             ELSE IF last_bill_usage > 0
             THEN Bill({"last_bill_total_charges", "last_bill_total_usage", "total_cost"},
                       last_bill_charges, last_bill_usage, ZeroRatio,
                       RoundDiv(total * avg_cost.num, avg_cost.den * 100))
             ELSE Bill({"last_bill_total_charges", "last_bill_total_usage"},
                       last_bill_charges, last_bill_usage, ZeroRatio, 0)

\* total_consumption as the billing block finds it
TotalSoFar(r, usage) ==
    IF r = "legacy" /\ usage.kind = "rows" THEN TotalConsumption(r, usage.rows) ELSE 0

Result(status, usage, billing) == [status |-> status, usage |-> usage, billing |-> billing]

Unset == Result("unset", NoUsage, NoStats)
None == Result("None", NoUsage, NoStats)

\* A combination that gives up unless both summaries are there
CombinedNeedsBoth(usage, billing) ==
    IF usage.present /\ billing.present THEN Result("data", usage, billing) ELSE None

\* combined_data = {**usage_stats, **billing_stats}; None when it is empty
Combined(usage, billing) ==
    IF usage.present \/ billing.present THEN Result("data", usage, billing) ELSE None

\* A billing download whose failure leaves the usage summary to be returned
ReturnedKeepsUsage(r, fetched, usage, total) ==
    Combined(usage, IF fetched.kind = "raise" THEN NoStats
                    ELSE BillingStats(r, fetched.rows, total))

\* An exception that leaves get_data() and reaches the caller
Propagated == Result("raised", NoUsage, NoStats)

\* A get_data() whose only except clause is the one for RequestException
ReturnedPropagates(r, fetched, usage, total) ==
    IF fetched.kind = "raise" /\ fetched.why = "http" THEN None
    ELSE IF fetched.kind = "raise" \/ BillingRaises(fetched.rows) THEN Propagated
    ELSE Combined(usage, BillingStats(r, fetched.rows, total))

\* What get_data() returns once the billing download has ended: None from
\* the except clauses when the download or the billing block raised
Returned(r, fetched, usage, total) ==
    IF fetched.kind = "raise" \/ BillingRaises(fetched.rows) THEN None
    ELSE Combined(usage, BillingStats(r, fetched.rows, total))

----------------------------------------------------------------------------
(* The state machine *)

Req(kind) == [kind |-> kind]

NoResponse == [http |-> "none", url |-> NoUrl, page |-> Settings(FALSE, "", ""),
               set_cookies |-> {}]

NoConfirmed == [http |-> "none", page |-> ConfirmPage(<<>>, <<>>)]

Init ==
    /\ rev \in {"component", "legacy"}
    /\ NoSensors
    /\ calls = 0
    /\ pc = "idle"
    /\ caller = "none"
    /\ cookies = {}
    /\ fresh = {}
    /\ reqs = <<>>
    /\ response = NoResponse
    /\ csrf_token = ""
    /\ trans_id = ""
    /\ policy = ""
    /\ auth_response = ""
    /\ confirmed_response = NoConfirmed
    /\ form_action = <<>>
    /\ form_data = EmptyDict
    /\ final_url = NoUrl
    /\ loginResult = "none"
    /\ loginFail = NoFail
    /\ page_tags = <<>>
    /\ verification_token = ""
    /\ http = <<>>
    /\ today \in CycleTodays
    /\ usage_data = NotFetched
    /\ billing_data = NotFetched
    /\ usage_stats = NoUsage
    /\ billing_stats = NoStats
    /\ result = Unset

\* The cookie jar a login attempt starts with: the component revision clears
\* the session's cookies first, the legacy revision keeps them
ClearedJar(r, jar) == IF r = "component" THEN {} ELSE jar

\* Entry of login(): called on its own (by = "login") or as the first
\* statement of get_data()
Enter(by) ==
    /\ pc = "idle"
    /\ calls < MaxCalls
    /\ calls' = calls + 1
    /\ caller' = by
    /\ pc' = "step1"
    /\ cookies' = ClearedJar(rev, cookies)
    /\ fresh' = {}
    /\ reqs' = <<>>
    /\ response' = NoResponse
    /\ csrf_token' = ""
    /\ trans_id' = ""
    /\ policy' = ""
    /\ auth_response' = ""
    /\ confirmed_response' = NoConfirmed
    /\ form_action' = <<>>
    /\ form_data' = EmptyDict
    /\ final_url' = NoUrl
    /\ loginResult' = "none"
    /\ loginFail' = NoFail
    /\ page_tags' = <<>>
    /\ verification_token' = ""
    /\ http' = <<>>
    /\ usage_data' = NotFetched
    /\ billing_data' = NotFetched
    /\ usage_stats' = NoUsage
    /\ billing_stats' = NoStats
    /\ result' = Unset
    /\ UNCHANGED <<rev, settings, importer, today>>

login == Enter("login")

get_data == Enter("get_data")

\* A login() that logs the failure of a step and goes on to the next step
LoginFailsGoesOn(why) ==
    /\ loginResult' = "False"
    /\ loginFail' = why
    /\ pc' = CASE pc = "step1" -> "step3"
               [] pc = "step3" -> "step4"
               [] pc = "step4" -> "step5"
               [] OTHER -> "idle"
    /\ result' = IF caller = "get_data" THEN None ELSE result

\* A get_data() that does not look at what login() returned
LoginFailsIgnored(why) ==
    /\ loginResult' = "False"
    /\ loginFail' = why
    /\ pc' = IF caller = "get_data" THEN "page" ELSE "idle"
    /\ UNCHANGED result

\* login() returns False: get_data() then returns None at once
LoginFails(why) ==
    /\ loginResult' = "False"
    /\ loginFail' = why
    /\ pc' = "idle"
    /\ result' = IF caller = "get_data" THEN None ELSE result

\* login() returns True: get_data() goes on to the download page
LoginSucceeds ==
    /\ loginResult' = "True"
    /\ loginFail' = NoFail
    /\ pc' = IF caller = "get_data" THEN "page" ELSE "idle"
    /\ UNCHANGED result

\* Step 1 and step 2: the login-initiation POST, the host check and the
\* extraction of the tokens and of the policy
Step1 ==
    /\ pc = "step1"
    /\ \E resp \in Step1Responses :
        LET out == Step1Outcome(rev, resp) IN
        /\ http' = Append(http, resp.http)
        /\ reqs' = Append(reqs, Req("login_post"))
        /\ cookies' = cookies \cup resp.set_cookies
        /\ fresh' = fresh \cup resp.set_cookies
        /\ response' = resp
        /\ IF out.fail # NoFail
           THEN /\ LoginFails(out.fail)
                /\ UNCHANGED <<csrf_token, trans_id, policy>>
           ELSE /\ csrf_token' = out.csrf
                /\ trans_id' = out.tx
                /\ policy' = out.policy
                /\ pc' = "step3"
                /\ UNCHANGED <<loginResult, loginFail, result>>
    /\ UNCHANGED <<rev, settings, importer, today, usage_data, billing_data, calls, caller, auth_response, confirmed_response,
                   form_action, form_data, final_url,
                   page_tags, verification_token, usage_stats, billing_stats>>

\* Step 3: the credentials POST to the SelfAsserted endpoint
Step3 ==
    /\ pc = "step3"
    /\ \E resp \in Step3Responses :
        /\ http' = Append(http, resp.http)
        /\ reqs' = Append(reqs, [kind |-> "credentials_post", policy |-> policy,
                                 csrf |-> csrf_token, tx |-> trans_id,
                                 referer |-> response.url])
        /\ auth_response' = resp.body
        /\ IF Step3Outcome(resp) # NoFail
           THEN LoginFails(Step3Outcome(resp))
           ELSE /\ pc' = "step4"
                /\ UNCHANGED <<loginResult, loginFail, result>>
    /\ UNCHANGED <<rev, settings, importer, today, usage_data, billing_data, calls, caller, cookies, fresh, response, csrf_token,
                   trans_id, policy, confirmed_response, form_action, form_data,
                   final_url, page_tags, verification_token, usage_stats,
                   billing_stats>>

\* Step 4 and the first half of step 5: the confirmation GET and the parsing
\* of the token-exchange form
Step4 ==
    /\ pc = "step4"
    /\ \E resp \in Step4Responses :
        /\ http' = Append(http, resp.http)
        /\ reqs' = Append(reqs, [kind |-> "confirm_get", policy |-> policy,
                                 csrf |-> csrf_token, tx |-> trans_id])
        /\ confirmed_response' = resp
        /\ IF Step4Outcome(rev, resp) # NoFail
           THEN /\ LoginFails(Step4Outcome(rev, resp))
                /\ form_action' = Unescape(resp.page.action)
                /\ form_data' = IF resp.http = "ok" /\ resp.page.action # <<>>
                                THEN ParseInputs(rev, resp.page.tags) ELSE EmptyDict
           ELSE /\ form_action' = Unescape(resp.page.action)
                /\ form_data' = ParseInputs(rev, resp.page.tags)
                /\ pc' = "step5"
                /\ UNCHANGED <<loginResult, loginFail, result>>
    /\ UNCHANGED <<rev, settings, importer, today, usage_data, billing_data, calls, caller, cookies, fresh, response, csrf_token,
                   trans_id, policy, auth_response, final_url, page_tags,
                   verification_token, usage_stats, billing_stats>>

\* What the step-5 POST carries
FormPost(action, data) == [kind |-> "form_post", url |-> action, data |-> data]

\* Second half of step 5: the POST of the form, and the success criterion
Step5 ==
    /\ pc = "step5"
    /\ \E resp \in Step5Responses :
        /\ http' = Append(http, resp.http)
        /\ reqs' = Append(reqs, FormPost(form_action, form_data))
        /\ cookies' = cookies \cup resp.set_cookies
        /\ fresh' = fresh \cup resp.set_cookies
        /\ final_url' = resp.url
        /\ IF Step5Outcome(rev, resp, cookies') # NoFail
           THEN LoginFails(Step5Outcome(rev, resp, cookies'))
           ELSE LoginSucceeds
    /\ UNCHANGED <<rev, settings, importer, today, usage_data, billing_data, calls, caller, response, csrf_token, trans_id, policy,
                   auth_response, confirmed_response, form_action, form_data,
                   page_tags, verification_token, usage_stats, billing_stats>>

\* A download that sends a token kept from an earlier cycle
DownloadCachedToken(category, token) ==
    [kind |-> "download", dataCategory |-> category, token |-> "rvt1"]

\* What a report download request carries
Download(category, token) ==
    [kind |-> "download", dataCategory |-> category, token |-> token]

\* get_data(): the GET of the download page and the extraction of the
\* request verification token
DownloadPage ==
    /\ pc = "page"
    /\ \E resp \in PageResponses :
        LET token == GetVerificationToken(rev, resp.tags) IN
        /\ http' = Append(http, resp.http)
        /\ reqs' = Append(reqs, Req("page_get"))
        /\ page_tags' = resp.tags
        /\ IF resp.http = "error" \/ token = ""
           THEN /\ result' = None
                /\ pc' = "idle"
                /\ UNCHANGED verification_token
           ELSE /\ verification_token' = token
                /\ pc' = "pd"
                /\ UNCHANGED result
    /\ UNCHANGED <<rev, settings, importer, today, usage_data, billing_data, calls, caller, cookies, fresh, response, csrf_token,
                   trans_id, policy, auth_response, confirmed_response,
                   form_action, form_data, final_url,
                   loginResult, loginFail, usage_stats, billing_stats>>

\* get_data(): the usage (PD) download and the usage block
FetchUsage ==
    /\ pc = "pd"
    /\ \E resp \in FetchResponses(UsageFiles) :
        LET fetched == _fetch_data_from_api(rev, resp) IN
        /\ http' = Append(http, resp.http)
        /\ reqs' = Append(reqs, Download("PD", verification_token))
        /\ usage_data' = fetched
        /\ IF fetched.kind = "raise" \/ UsageRaises(rev, fetched.rows)
           THEN /\ result' = None
                /\ pc' = "idle"
                /\ UNCHANGED usage_stats
           ELSE /\ usage_stats' = UsageStats(rev, fetched.rows, today)
                /\ pc' = "bb"
                /\ UNCHANGED result
    /\ UNCHANGED <<rev, settings, importer, today, billing_data, calls, caller, cookies, fresh,
                   response, csrf_token,
                   trans_id, policy, auth_response, confirmed_response,
                   form_action, form_data, final_url,
                   loginResult, loginFail, page_tags, verification_token,
                   billing_stats>>

\* get_data(): the billing (BB) download, the billing block and the
\* combination of the two summaries
FetchBilling ==
    /\ pc = "bb"
    /\ \E resp \in FetchResponses(BillingFiles) :
        LET fetched == _fetch_data_from_api(rev, resp) IN
        /\ http' = Append(http, resp.http)
        /\ reqs' = Append(reqs, Download("BB", verification_token))
        /\ billing_data' = fetched
        /\ pc' = "idle"
        /\ billing_stats' = IF fetched.kind = "raise" \/ BillingRaises(fetched.rows)
                            THEN billing_stats
                            ELSE BillingStats(rev, fetched.rows, TotalSoFar(rev, usage_data))
        /\ result' = Returned(rev, fetched, usage_stats, TotalSoFar(rev, usage_data))
    /\ UNCHANGED <<rev, settings, importer, today, usage_data, calls, caller, cookies, fresh,
                   response, csrf_token,
                   trans_id, policy, auth_response, confirmed_response,
                   form_action, form_data, final_url,
                   loginResult, loginFail, page_tags, verification_token,
                   usage_stats>>

Next ==
    \/ login
    \/ get_data
    \/ Step1
    \/ Step3
    \/ Step4
    \/ Step5
    \/ DownloadPage
    \/ FetchUsage
    \/ FetchBilling

Spec == Init /\ [][Next]_vars

----------------------------------------------------------------------------
(* The usage block on its own, over exports of a few days *)

\* Number of groups of rows an export is put together from.
MaxBlocks == 3

\* n rows of usage u on a date, one per quarter hour from midnight on, the
\* 97th again at midnight
Quarters(date, n, u) ==
    [i \in 1..n |-> Row(Number(u), Stamp(date, (i - 1) % QuarterHours))]

\* n rows of usage u on a date, all stamped midnight
Repeats(date, n, u) == [i \in 1..n |-> Row(Number(u), Stamp(date, 0))]

\* The groups of rows: single readings a week before, a whole day of 97
\* rows, negative readings, a whole day of 96 rows, rows that do not parse,
\* part of a day, a day of 96 rows with one timestamp, a day one row short,
\* single readings on the first and last days of months, a line cut short
Blocks ==
    << <<Row(Number(20000), Stamp(Date(2023, 12, 26), 10)),
         Row(Number(300), Stamp(Date(2023, 12, 27), 10))>>,
       Quarters(Date(2023, 12, 30), FullDayReadings + 1, 6),
       Quarters(Date(2023, 12, 29), 2, -1000),
       Quarters(Date(2024, 1, 2), FullDayReadings, 4),
       <<Row(Text, Stamp(Date(2024, 1, 2), 7)), Row(Number(500), Text),
         Row(Blank, Blank)>>,
       Quarters(Date(2024, 1, 3), 3, 1000),
       Repeats(Date(2024, 1, 4), FullDayReadings, 2),
       Quarters(Date(2024, 1, 5), FullDayReadings - 1, 8),
       <<Row(Number(20), Stamp(Date(2023, 11, 30), 95)),
         Row(Number(40), Stamp(Date(2023, 12, 1), 0)),
         Row(Number(80), Stamp(Date(2023, 12, 31), 95)),
         Row(Number(160), Stamp(Date(2024, 1, 1), 0)),
         Row(Number(320), Stamp(Date(2024, 1, 31), 95)),
         Row(Number(640), Stamp(Date(2024, 2, 1), 0)),
         Row(Number(1280), Stamp(Date(2024, 2, 29), 95)),
         Row(Number(2560), Stamp(Date(2024, 3, 1), 0))>>,
       <<Row(Number(60), Blank)>> >>

\* The rows of the chosen groups, in the order of Blocks
RECURSIVE Concat(_, _)
Concat(chosen, n) ==
    IF n = 0 THEN <<>>
    ELSE Concat(chosen, n - 1) \o (IF n \in chosen THEN Blocks[n] ELSE <<>>)

\* The exports: up to MaxBlocks groups, or a file whose header lacks one of
\* the two columns
ExportFiles ==
    { Concat(chosen, Len(Blocks)) :
        chosen \in { c \in SUBSET (1..Len(Blocks)) : Cardinality(c) <= MaxBlocks } }
    \cup { <<Row(Number(70), NoColumn), Row(Number(90), NoColumn)>>,
           <<Row(NoColumn, Stamp(Date(2024, 1, 2), 0))>> }

\* "today" in the provider's zone: in January, on the first and last day of
\* a month, after a leap February, after a month of 30 days
Todays == {Date(2023, 12, 31), Date(2024, 1, 1), Date(2024, 1, 31), Date(2024, 3, 1)}

\* get_data() after the usage download has returned its rows
UsageInit ==
    /\ rev \in {"component", "legacy"}
    /\ NoSensors
    /\ calls = 1
    /\ pc = "usage"
    /\ caller = "get_data"
    /\ cookies = {}
    /\ fresh = {}
    /\ reqs = <<>>
    /\ response = NoResponse
    /\ csrf_token = ""
    /\ trans_id = ""
    /\ policy = ""
    /\ auth_response = ""
    /\ confirmed_response = NoConfirmed
    /\ form_action = <<>>
    /\ form_data = EmptyDict
    /\ final_url = NoUrl
    /\ loginResult = "True"
    /\ loginFail = NoFail
    /\ page_tags = <<>>
    /\ verification_token = ""
    /\ http = <<>>
    /\ today \in Todays
    /\ usage_data \in { Fetched("rows", "csv", f) : f \in ExportFiles }
    /\ billing_data = NotFetched
    /\ usage_stats = NoUsage
    /\ billing_stats = NoStats
    /\ result = Unset

\* get_data(), the usage block: the loop over the rows and the summaries
UsageBlock ==
    /\ pc = "usage"
    /\ IF UsageRaises(rev, usage_data.rows)
       THEN /\ result' = None
            /\ pc' = "idle"
            /\ UNCHANGED usage_stats
       ELSE /\ usage_stats' = UsageStats(rev, usage_data.rows, today)
            /\ pc' = "bb"
            /\ UNCHANGED result
    /\ UNCHANGED <<rev, settings, importer, today, usage_data, billing_data, calls, caller, cookies,
                   fresh, reqs, http, response, csrf_token, trans_id, policy,
                   auth_response, confirmed_response, form_action, form_data,
                   final_url, loginResult, loginFail, page_tags,
                   verification_token, billing_stats>>

UsageNext == UsageBlock

UsageSpec == UsageInit /\ [][UsageNext]_vars

----------------------------------------------------------------------------
(* The billing block of get_data() alone, over billing exports of a few bills *)

\* The most rows of a billing export
MaxBills == 3

\* The rows the billing exports are made of: the bill of the example
\* ("$123.45", 500 kWh), two bills issued the same day of which one has no
\* usage, a bill with a negative usage, an older bill, a row whose issue date
\* does not parse, a late bill whose charges do not parse, a line cut short
\* before its issue date, a late bill whose usage is written "1,200"
BillMenu ==
    { BillRow(IssueDate(Date(2024, 1, 15)), Money(12345), Number(500)),
      BillRow(IssueDate(Date(2024, 2, 15)), Number(9000), Number(300)),
      BillRow(IssueDate(Date(2024, 2, 15)), Number(8000), Number(0)),
      BillRow(IssueDate(Date(2024, 3, 15)), Money(120000), Number(0 - 40)),
      BillRow(IssueDate(Date(2023, 12, 15)), Number(7000), Number(250)),
      BillRow(Text, Number(9000), Number(300)),
      BillRow(IssueDate(Date(2024, 4, 15)), Text, Number(100)),
      BillRow(Blank, Blank, Blank),
      BillRow(IssueDate(Date(2024, 5, 15)), Number(5000), Money(1200)) }

\* The sequences of n distinct rows of a set
RECURSIVE Arrangements(_, _)
Arrangements(S, n) ==
    IF n = 0 THEN {<<>>}
    ELSE UNION { { <<x>> \o t : t \in Arrangements(S \ {x}, n - 1) } : x \in S }

\* The billing exports explored: the rows of the menu in every order, an
\* export without the BillIssueDate column and one without the TotalCharges
\* column
BillFiles ==
    UNION { Arrangements(BillMenu, n) : n \in 1..MaxBills }
    \cup { <<BillRow(NoColumn, Number(9000), Number(300))>>,
           <<BillRow(IssueDate(Date(2024, 1, 15)), NoColumn, Number(500))>> }

\* get_data() after the billing download has returned its rows, the usage
\* block having ended without raising
BillingInit ==
    /\ rev \in {"component", "legacy"}
    /\ NoSensors
    /\ calls = 1
    /\ pc = "billing"
    /\ caller = "get_data"
    /\ cookies = {}
    /\ fresh = {}
    /\ reqs = <<>>
    /\ response = NoResponse
    /\ csrf_token = ""
    /\ trans_id = ""
    /\ policy = ""
    /\ auth_response = ""
    /\ confirmed_response = NoConfirmed
    /\ form_action = <<>>
    /\ form_data = EmptyDict
    /\ final_url = NoUrl
    /\ loginResult = "True"
    /\ loginFail = NoFail
    /\ page_tags = <<>>
    /\ verification_token = ""
    /\ http = <<>>
    /\ today \in CycleTodays
    /\ usage_data \in { Fetched("rows", "csv", f) :
                            f \in { g \in UsageFiles : ~UsageRaises(rev, g) } }
    /\ billing_data \in { Fetched("rows", "csv", f) : f \in BillFiles }
    /\ usage_stats = UsageStats(rev, usage_data.rows, today)
    /\ billing_stats = NoStats
    /\ result = Unset

\* get_data(), the billing block and the combination of the two summaries
BillingBlock ==
    /\ pc = "billing"
    /\ pc' = "idle"
    /\ billing_stats' = IF BillingRaises(billing_data.rows) THEN billing_stats
                        ELSE BillingStats(rev, billing_data.rows,
                                          TotalSoFar(rev, usage_data))
    /\ result' = Returned(rev, billing_data, usage_stats, TotalSoFar(rev, usage_data))
    /\ UNCHANGED <<rev, settings, importer, today, usage_data, billing_data, calls, caller, cookies,
                   fresh, reqs, http, response, csrf_token, trans_id, policy,
                   auth_response, confirmed_response, form_action, form_data,
                   final_url, loginResult, loginFail, page_tags,
                   verification_token, usage_stats>>

BillingNext == BillingBlock

BillingSpec == BillingInit /\ [][BillingNext]_vars

----------------------------------------------------------------------------
(* The statistics sensors: hourly cumulative series in the recorder *)

\* The offset of the provider's zone, America/Regina: UTC-6 the whole year
UtcOffset == 6 * 60

\* reading["datetime"].astimezone(timezone.utc), in minutes
astimezone(dt) == (Ordinal(dt.date) * QuarterHours + dt.slot) * 15 + UtcOffset

\* reading_time.replace(minute=0, second=0, microsecond=0)
HourStart(t) == t - (t % 60)

\* The recorder keeps the start of a point as a timestamp, in seconds
timestamp(t) == t * 60

\* datetime.fromtimestamp(ts, tz=timezone.utc)
fromtimestamp(ts) == ts \div 60

\* StatisticData(start=hour_start, sum=current_sum)
StatisticData(start, sum) == [start |-> start, sum |-> sum]

\* No avg_cost_per_kwh in coordinator.data
NoAvgCost == 0 - 1

\* coordinator.data: None, or the summaries of a cycle
NoData == [present |-> FALSE]

Data(readings, avg_cost) ==
    [present |-> TRUE, interval_readings |-> readings, avg_cost_per_kwh |-> avg_cost]

\* The "sum" of a point that has none: last_stat_row[0].get("sum") is None
NoSum == 0 - 1

\* last_stats.get(statistic_id, [{}])[0] when the series has no point
NoRow == [found |-> FALSE, start |-> 0, sum |-> 0]

\* get_last_statistics(hass, 1, statistic_id, True, {"sum"}): the point of
\* the series with the latest start
get_last_statistics(series) ==
    IF series = {} THEN NoRow
    ELSE LET p == CHOOSE p \in series : \A q \in series : q.start <= p.start
         IN  [found |-> TRUE, start |-> p.start, sum |-> p.sum]

\* A resume point that is the hour-start of the latest point itself
ResumeAtLastStart(row, t, days) ==
    IF row.found THEN fromtimestamp(row.start) ELSE t - days * 24 * 60

\* A backfill that reaches back to the epoch
ResumeAtEpoch(row, t, days) ==
    IF row.found THEN fromtimestamp(row.start) + 60 ELSE 0

\* filter_time: one hour after the start of the latest point, or
\* backfill_days days before now
FilterTime(row, t, days) ==
    IF row.found THEN fromtimestamp(row.start) + 60 ELSE t - days * 24 * 60

\* starting_sum: last_stat_row[0].get("sum", 0) or 0, or 0.0 without a point
StartingSum(row) == IF row.found /\ row.sum # NoSum THEN row.sum ELSE 0

\* What a reading adds to its bucket: its usage, or its usage times avg_cost
Amount(s, reading, avg_cost) ==
    IF s = "consumption" THEN reading.usage ELSE reading.usage * avg_cost

\* The readings the loop puts into buckets
Newer(readings, filter_time) ==
    LET Qualifies(x) == astimezone(x.datetime) > filter_time
    IN  SelectSeq(readings, Qualifies)

\* hourly_data
HourlyData(s, readings, avg_cost, filter_time) ==
    LET new == Newer(readings, filter_time)
        hour_start == [i \in 1..Len(new) |-> HourStart(astimezone(new[i].datetime))]
    IN  [h \in { hour_start[i] : i \in 1..Len(new) } |->
            Sum([i \in 1..Len(new) |->
                    IF hour_start[i] = h THEN Amount(s, new[i], avg_cost) ELSE 0])]

\* sorted(hourly_data)
RECURSIVE sorted(_)
sorted(S) ==
    IF S = {} THEN <<>>
    ELSE LET least == CHOOSE x \in S : \A y \in S : x <= y
         IN  <<least>> \o sorted(S \ {least})

\* Points that hold the total of their own hour only
PerHour(hours, hourly_data, current_sum) ==
    [i \in 1..Len(hours) |-> StatisticData(hours[i], current_sum + hourly_data[hours[i]])]

\* The loop over the sorted buckets: each point holds the running sum
RECURSIVE Accumulate(_, _, _)
Accumulate(hours, hourly_data, current_sum) ==
    IF hours = <<>> THEN <<>>
    ELSE LET next_sum == current_sum + hourly_data[Head(hours)]
         IN  <<StatisticData(Head(hours), next_sum)>>
                 \o Accumulate(Tail(hours), hourly_data, next_sum)

\* stats_to_import
StatsToImport(s, readings, avg_cost, filter_time, starting_sum) ==
    LET hourly_data == HourlyData(s, readings, avg_cost, filter_time)
    IN  Accumulate(sorted(DOMAIN hourly_data), hourly_data, starting_sum)

\* A value reported as 0 when nothing is written
NativeValueOrZero(stats, starting_sum) ==
    IF stats # <<>> THEN stats[Len(stats)].sum ELSE 0

\* _attr_native_value at the end of the run
NativeValue(stats, starting_sum) ==
    IF stats # <<>> THEN stats[Len(stats)].sum ELSE starting_sum

\* The recorder's import of a list of points: a point replaces the one of
\* the same start
Imported(series, stats) ==
    LET points == { [start |-> timestamp(stats[i].start), sum |-> stats[i].sum] :
                       i \in 1..Len(stats) }
    IN  { p \in series : \A q \in points : q.start # p.start } \cup points

\* A cost handler that goes on with an avg_cost_per_kwh of 0
HandlerReturnsIfNone(s, data) ==
    IF ~data.present THEN TRUE
    ELSE IF data.interval_readings = <<>> THEN TRUE
    ELSE s = "cost" /\ data.avg_cost_per_kwh = NoAvgCost

\* _async_handle_statistics_update() returns before _import_statistics()
HandlerReturns(s, data) ==
    IF ~data.present THEN TRUE
    ELSE IF data.interval_readings = <<>> THEN TRUE
    ELSE s = "cost" /\ data.avg_cost_per_kwh \in {NoAvgCost, 0}

\* A coroutine of _async_handle_statistics_update(): not yet started, or
\* awaiting get_last_statistics inside _import_statistics()
Created(s) ==
    [sensor |-> s, pc |-> "created", readings |-> <<>>, avg_cost |-> 0,
     last_stat_row |-> NoRow, settled |-> FALSE, before |-> [ran |-> FALSE]]

Awaiting(s, readings, avg_cost, row, settled, before) ==
    [sensor |-> s, pc |-> "awaiting", readings |-> readings, avg_cost |-> avg_cost,
     last_stat_row |-> row, settled |-> settled, before |-> before]

Remove(seq, i) == SubSeq(seq, 1, i - 1) \o SubSeq(seq, i + 1, Len(seq))

\* Every point the runs of a sensor have emitted is in the recorder and no
\* other run of the sensor is under way
Settled(s, i) ==
    /\ \A k \in 1..Len(recorder_queue) : recorder_queue[k].statistic_id # s
    /\ \A k \in 1..Len(tasks) : k # i /\ tasks[k].sensor = s => tasks[k].pc = "created"

\* What a later run keeps of a run: its input, the value it reported, the
\* resume point of the first run and whether every run so far was the only
\* import of its series
Before(run) ==
    IF run.ran
    THEN [ran |-> TRUE, readings |-> run.readings, stats |-> run.stats,
          value |-> run.value, settled |-> run.settled,
          origin |-> run.origin, serial |-> run.serial]
    ELSE [ran |-> FALSE]

\* The record of a run of _import_statistics(), with the run of the same
\* sensor that had ended when this one read the latest point
Run(task, t, filter_time, starting_sum, stats, value) ==
    [ran |-> TRUE, sensor |-> task.sensor, readings |-> task.readings,
     avg_cost |-> task.avg_cost,
     last_stat_row |-> task.last_stat_row, settled |-> task.settled, now |-> t,
     filter_time |-> filter_time, starting_sum |-> starting_sum,
     stats |-> stats, value |-> value, previous |-> task.before,
     origin |-> IF task.before.ran THEN task.before.origin
                ELSE [filter_time |-> filter_time, starting_sum |-> starting_sum],
     serial |-> IF task.before.ran THEN task.settled /\ task.before.serial
                ELSE task.settled]

\* The most readings of coordinator.data
MaxReadings == 3

\* The most coordinator refreshes after the first
MaxUpdates == 2

\* The most coroutines in flight
MaxTasks == 2

\* Readings of the provider's zone, six hours behind UTC: 10:30, 11:00, 11:15
\* and 13:00 UTC of 9 January 2024, the last with a negative usage
ReadingMenu ==
    << [datetime |-> DateTime(Date(2024, 1, 9), 18), usage |-> 20000],
       [datetime |-> DateTime(Date(2024, 1, 9), 20), usage |-> 10000],
       [datetime |-> DateTime(Date(2024, 1, 9), 21), usage |-> 30000],
       [datetime |-> DateTime(Date(2024, 1, 9), 28), usage |-> 0 - 10000] >>

\* interval_readings: some of the readings, in the order of the export
Windows ==
    { LET Kept(x) == x \in chosen IN SelectSeq(ReadingMenu, Kept) :
        chosen \in { c \in SUBSET { ReadingMenu[i] : i \in 1..Len(ReadingMenu) } :
                        Cardinality(c) <= MaxReadings } }

\* What a refresh leaves in coordinator.data: None, or readings with an
\* avg_cost_per_kwh of 0.2469 (in ten-thousandths of a dollar), or a reading
\* with an avg_cost_per_kwh that is 0 or absent
Refreshes ==
    {NoData}
    \cup { Data(w, 2469) : w \in Windows }
    \cup { Data(<<ReadingMenu[3]>>, a) : a \in {NoAvgCost, 0} }

\* The export of a later refresh holds the readings of the earlier one
Holds(later, earlier) ==
    IF later.present /\ earlier.present
    THEN \A i \in 1..Len(earlier.interval_readings) :
             \E k \in 1..Len(later.interval_readings) :
                 later.interval_readings[k] = earlier.interval_readings[i]
    ELSE TRUE

\* The time of the first refresh: 11:00 UTC of 10 January 2024
Nows == { astimezone(DateTime(Date(2024, 1, 10), 20)) }

\* The minutes between two refreshes
Elapsed == {60}

\* The series a sensor finds: none, or one whose latest point is the hour
\* from 10:00 UTC of 9 January 2024 (sum 50.0)
PriorSeries ==
    { {},
      { [start |-> timestamp(HourStart(astimezone(DateTime(Date(2024, 1, 9), 16)))),
         sum |-> 500000] } }

\* The sensors are about to be added, after the first refresh
ImportInit ==
    /\ rev = "component"
    /\ calls = 0
    /\ pc = "idle"
    /\ caller = ""
    /\ cookies = {}
    /\ fresh = {}
    /\ reqs = <<>>
    /\ response = NoResponse
    /\ csrf_token = ""
    /\ trans_id = ""
    /\ policy = ""
    /\ auth_response = ""
    /\ confirmed_response = NoConfirmed
    /\ form_action = <<>>
    /\ form_data = EmptyDict
    /\ final_url = NoUrl
    /\ loginResult = "none"
    /\ loginFail = NoFail
    /\ page_tags = <<>>
    /\ verification_token = ""
    /\ http = <<>>
    /\ today \in CycleTodays
    /\ usage_data = NotFetched
    /\ billing_data = NotFetched
    /\ usage_stats = NoUsage
    /\ billing_stats = NoStats
    /\ result = Unset
    /\ now \in Nows
    /\ backfill_days \in {1, 2}
    /\ SetUpFrom(backfill_days, 24)
    /\ coordinator_data \in Refreshes
    /\ updates = 0
    /\ added = {}
    /\ tasks = <<>>
    /\ \E series \in PriorSeries :
           /\ statistics = [s \in Sensors |-> series]
           /\ series # {} => backfill_days = 1
    /\ recorder_queue = <<>>
    /\ native_value = [s \in Sensors |-> [set |-> FALSE]]
    /\ last_import = [s \in Sensors |-> [ran |-> FALSE]]

scraper == <<rev, calls, pc, caller, cookies, fresh, reqs, response,
             csrf_token, trans_id, policy, auth_response, confirmed_response,
             form_action, form_data, final_url,
             loginResult, loginFail, page_tags, verification_token,
             http, today, usage_data, billing_data,
             usage_stats, billing_stats, result>>

\* The coroutine of sensor s once it awaits get_last_statistics; i is its
\* place among the tasks
Begun(s, i) ==
    Awaiting(s, coordinator_data.interval_readings, coordinator_data.avg_cost_per_kwh,
             get_last_statistics(statistics[s]), Settled(s, i), Before(last_import[s]))

\* StatisticsSensor.async_added_to_hass(): the handler is awaited at once.
\* The sensors are added in the order of the list of async_setup_entry().
async_added_to_hass(s) ==
    /\ s \notin added
    /\ s = "cost" => "consumption" \in added
    /\ Len(tasks) < MaxTasks
    /\ added' = added \cup {s}
    /\ tasks' = IF HandlerReturns(s, coordinator_data) THEN tasks
                ELSE Append(tasks, Begun(s, 0))
    /\ UNCHANGED <<scraper, settings, now, backfill_days, coordinator_data, updates,
                   statistics, recorder_queue, native_value, last_import>>

\* A refresh of the coordinator and StatisticsSensor._handle_coordinator_update()
\* of every sensor added: a task is created when there is data
_handle_coordinator_update ==
    /\ updates < MaxUpdates
    /\ Len(tasks) + Cardinality(added) <= MaxTasks
    /\ updates' = updates + 1
    /\ \E data \in Refreshes, minutes \in Elapsed :
        /\ Holds(data, coordinator_data)
        /\ coordinator_data' = data
        /\ now' = now + minutes
        /\ tasks' = IF data.present
                    THEN tasks \o SelectSeq(<<Created("consumption"), Created("cost")>>,
                                            LAMBDA t : t.sensor \in added)
                    ELSE tasks
    /\ UNCHANGED <<scraper, settings, backfill_days, added, statistics, recorder_queue,
                   native_value, last_import>>

\* _async_handle_statistics_update() of a created task, up to the await of
\* get_last_statistics
_async_handle_statistics_update(i) ==
    /\ tasks[i].pc = "created"
    /\ tasks' = IF HandlerReturns(tasks[i].sensor, coordinator_data)
                THEN Remove(tasks, i)
                ELSE [tasks EXCEPT ![i] = Begun(tasks[i].sensor, i)]
    /\ UNCHANGED <<scraper, settings, now, backfill_days, coordinator_data, updates, added,
                   statistics, recorder_queue, native_value, last_import>>

\* _import_statistics() from the answer of get_last_statistics to its end
_import_statistics(i) ==
    /\ tasks[i].pc = "awaiting"
    /\ LET task == tasks[i]
           s == task.sensor
           filter_time == FilterTime(task.last_stat_row, now, backfill_days)
           starting_sum == StartingSum(task.last_stat_row)
           stats_to_import == StatsToImport(s, task.readings, task.avg_cost,
                                            filter_time, starting_sum)
           value == NativeValue(stats_to_import, starting_sum)
       IN  /\ recorder_queue' =
                 IF stats_to_import # <<>>
                 THEN Append(recorder_queue,
                             [statistic_id |-> s, stats |-> stats_to_import])
                 ELSE recorder_queue
           /\ native_value' = [native_value EXCEPT ![s] = [set |-> TRUE, value |-> value]]
           /\ last_import' = [last_import EXCEPT ![s] =
                                 Run(task, now, filter_time, starting_sum,
                                     stats_to_import, value)]
    /\ tasks' = Remove(tasks, i)
    /\ UNCHANGED <<scraper, settings, now, backfill_days, coordinator_data, updates, added,
                   statistics>>

\* The recorder runs the oldest import task of its queue
async_import_statistics ==
    /\ recorder_queue # <<>>
    /\ LET job == Head(recorder_queue) IN
       statistics' = [statistics EXCEPT ![job.statistic_id] =
                         Imported(statistics[job.statistic_id], job.stats)]
    /\ recorder_queue' = Tail(recorder_queue)
    /\ UNCHANGED <<scraper, settings, now, backfill_days, coordinator_data, updates, added,
                   tasks, native_value, last_import>>

ImportNext ==
    \/ \E s \in Sensors : async_added_to_hass(s)
    \/ _handle_coordinator_update
    \/ \E i \in 1..Len(tasks) : _async_handle_statistics_update(i)
    \/ \E i \in 1..Len(tasks) : _import_statistics(i)
    \/ async_import_statistics

ImportSpec == ImportInit /\ [][ImportNext]_vars

\* The scraper at rest between two cycles, and sensors not yet added
AtRest ==
    /\ rev = "component"
    /\ calls = 0
    /\ pc = "idle"
    /\ caller = ""
    /\ cookies = {}
    /\ fresh = {}
    /\ reqs = <<>>
    /\ response = NoResponse
    /\ csrf_token = ""
    /\ trans_id = ""
    /\ policy = ""
    /\ auth_response = ""
    /\ confirmed_response = NoConfirmed
    /\ form_action = <<>>
    /\ form_data = EmptyDict
    /\ final_url = NoUrl
    /\ loginResult = "none"
    /\ loginFail = NoFail
    /\ page_tags = <<>>
    /\ verification_token = ""
    /\ http = <<>>
    /\ today \in CycleTodays
    /\ usage_data = NotFetched
    /\ billing_data = NotFetched
    /\ usage_stats = NoUsage
    /\ billing_stats = NoStats
    /\ result = Unset
    /\ updates = 0
    /\ added = {}
    /\ tasks = <<>>
    /\ recorder_queue = <<>>
    /\ native_value = [s \in Sensors |-> [set |-> FALSE]]
    /\ last_import = [s \in Sensors |-> [ran |-> FALSE]]

\* The series a sensor finds when it is added: those of PriorSeries, or one
\* whose latest point, the hour from 09:00 UTC of 9 January 2024, has no sum
FoundSeries ==
    PriorSeries \cup
    { { [start |-> timestamp(HourStart(astimezone(DateTime(Date(2024, 1, 9), 12)))),
         sum |-> NoSum] } }

\* The sensors are about to be added to a recorder that holds a series
ResumeInit ==
    /\ AtRest
    /\ now \in { t + m : t \in Nows, m \in {0, 7} }
    /\ backfill_days \in {1, 2}
    /\ SetUpFrom(backfill_days, 24)
    /\ coordinator_data \in Refreshes
    /\ statistics \in [Sensors -> FoundSeries]

\* The first import of each sensor
ResumeNext ==
    \/ \E s \in Sensors : async_added_to_hass(s)
    \/ \E i \in 1..Len(tasks) : _import_statistics(i)
    \/ async_import_statistics

ResumeSpec == ResumeInit /\ [][ResumeNext]_vars

(***************************************************************************)
(* The config entry: setup, the options form, unload                       *)
(***************************************************************************)

\* vol.Range(min=1, max=365) of backfill_days: the ends and the default
BackfillChoices == {1, 30, 365}

\* vol.Range(min=1, max=168) of update_interval_hours: the ends and the default
IntervalChoices == {1, 24, 168}

\* user_input of the options form, as _options_schema() validates it
OptionsInput ==
    { [saved |-> TRUE, backfill_days |-> d, update_interval_hours |-> h] :
        d \in BackfillChoices, h \in IntervalChoices }

\* async_step_user() has created the entry; it is not yet set up
ConfigInit ==
    /\ AtRest
    /\ now \in Nows
    /\ backfill_days = 30
    /\ coordinator_data = NoData
    /\ statistics = [s \in Sensors |-> {}]
    /\ \E d \in BackfillChoices, h \in IntervalChoices : entry = Entry(d, h)
    /\ update_interval = 24
    /\ setup = NotSetUp

\* async_setup_entry() of __init__.py and of sensor.py: the settings are
\* read from entry.data, the coordinator is refreshed once and the
\* statistics sensors are constructed with config
async_setup_entry ==
    /\ ~setup.loaded
    /\ backfill_days' = entry.data.backfill_days
    /\ update_interval' = entry.data.update_interval_hours
    /\ setup' = [loaded |-> TRUE, options |-> entry.options]
    /\ coordinator_data' \in {NoData, Data(<<ReadingMenu[3]>>, 2469)}
    /\ UNCHANGED <<scraper, entry, now, updates, added, tasks, statistics,
                   recorder_queue, native_value, last_import>>

\* SaskPowerOptionsFlow.async_step_init(user_input): the input becomes
\* entry.options; the integration registers no update listener, so nothing
\* is reloaded
async_step_init ==
    /\ \E user_input \in OptionsInput :
           entry' = [entry EXCEPT !.options = user_input]
    /\ UNCHANGED <<scraper, importer, update_interval, setup>>

\* async_unload_entry(): a reload or a restart of Home Assistant
async_unload_entry ==
    /\ setup.loaded
    /\ setup' = NotSetUp
    /\ UNCHANGED <<scraper, importer, entry, update_interval>>

ConfigNext ==
    \/ async_setup_entry
    \/ async_step_init
    \/ async_unload_entry

ConfigSpec == ConfigInit /\ [][ConfigNext]_vars

----------------------------------------------------------------------------
(* Properties of login() *)

LoginOrder == <<"login_post", "credentials_post", "confirm_get", "form_post">>

CycleOrder == LoginOrder \o <<"page_get", "download", "download">>

Kinds(rs) == [i \in 1..Len(rs) |-> rs[i].kind]

IsLoginReq(r) == \E i \in 1..Len(LoginOrder) : LoginOrder[i] = r.kind

LoginReqs == SelectSeq(reqs, IsLoginReq)

Issued(kind) == \E i \in 1..Len(reqs) : reqs[i].kind = kind

\* Number of login requests issued once the steps 1..step have run
ReqsThrough(step) ==
    CASE step \in {1, 2} -> 1
      [] step = 3 -> 2
      [] step = 4 -> 3
      [] OTHER -> 4

\* C1: the requests of login() are always a prefix of: login-initiation POST,
\* credentials POST, confirmation GET, token-exchange POST; once a step has
\* failed, no request of a later step has been issued and login() has
\* returned False.
C1_LoginOrder ==
    /\ Len(LoginReqs) <= Len(LoginOrder)
    /\ Kinds(LoginReqs) = SubSeq(LoginOrder, 1, Len(LoginReqs))
    /\ loginFail # NoFail =>
          /\ loginResult = "False"
          /\ Len(LoginReqs) <= ReqsThrough(loginFail.step)
          /\ pc = "idle"

\* the credentials were rejected at step 3 after two requests, and the call
\* is over
C1_Witness ==
    /\ loginFail = Fail(3, "rejected")
    /\ Kinds(reqs) = <<"login_post", "credentials_post">>
    /\ pc = "idle"

\* The string each revision looks for in the final URL
DashboardMark == IF rev = "component" THEN _DASHBOARD_PATH ELSE LegacyDashboardMark

\* A cookie domain that is the provider's host or its parent domain
ProviderScoped(d) == d \in {"www.saskpower.com", ".saskpower.com"}

\* C2: login() returns True only after all four requests, the last one
\* answered without error, and with the dashboard path in the final URL or a
\* cookie of the provider's domain in the jar; with neither it returns False.
C2_SuccessCriterion ==
    /\ loginResult = "True" =>
          /\ Kinds(LoginReqs) = LoginOrder
          /\ \/ InUrl(DashboardMark, final_url)
             \/ \E d \in cookies : ProviderScoped(d)
    /\ ( /\ Issued("form_post")
         /\ ~InUrl(DashboardMark, final_url)
         /\ ~\E d \in cookies : ProviderScoped(d) ) => loginResult = "False"

\* success through the cookie fallback, off the dashboard
C2_Witness ==
    /\ loginResult = "True"
    /\ ~InUrl(DashboardMark, final_url)
    /\ \E d \in cookies : ProviderScoped(d)

\* C3: credentials are only ever sent with the policy name that the step-1
\* URL carries in its query parameter p; without one, none are sent.
C3_PolicyNeverGuessed ==
    \A i \in 1..Len(reqs) :
        reqs[i].kind = "credentials_post" =>
            /\ reqs[i].referer.p # ""
            /\ reqs[i].policy = reqs[i].referer.p

\* C4: when the answer of the credentials POST carries a status other than
\* the string "200", login() returns False and neither the confirmation GET
\* nor the token-exchange POST is issued.
C4_CredentialsRejected ==
    auth_response \in {"int:200", "str:400", "missing"} =>
        /\ loginResult = "False"
        /\ ~Issued("confirm_get")
        /\ ~Issued("form_post")

\* the status is the number 200, not the string
C4_Witness ==
    /\ auth_response = "int:200"
    /\ loginResult = "False"
    /\ Kinds(reqs) = <<"login_post", "credentials_post">>

\* C5: when the form parsed from the confirmation page has no id_token, or
\* an empty one, login() returns False and nothing is posted; when it has
\* one, the whole parsed field set is posted to the action of the form.
C5_TokenExchange ==
    LET page == confirmed_response.page
        parsed == ParseInputs(rev, page.tags)
    IN  confirmed_response.http = "ok" /\ page.action # <<>> =>
          IF Get(parsed, "id_token") = ""
          THEN loginResult = "False" /\ ~Issued("form_post")
          ELSE \/ pc = "step5"
               \/ /\ Len(reqs) >= 4
                  /\ reqs[4].kind = "form_post"
                  /\ reqs[4].data = parsed
                  /\ reqs[4].url = Unescape(page.action)

\* the form has fields, but its id_token is empty
C5_Witness ==
    /\ loginFail = Fail(5, "noidtoken")
    /\ Get(form_data, "state") # ""
    /\ "id_token" \in DOMAIN form_data
    /\ ~Issued("form_post")

\* the form, action unescaped and two fields, has been posted
C5_WitnessPosted ==
    /\ Issued("form_post")
    /\ DOMAIN reqs[4].data = {"id_token", "state"}
    /\ reqs[4].url = <<"callback", "&", "x">>

\* login() got past the host check of step 1
PastStep1 ==
    \/ loginFail.step >= 2
    \/ Issued("credentials_post")

\* C6: login() goes on to the token extraction, and sends credentials, only
\* when the URL reached by the step-1 POST is on the identity provider's host.
C6_RedirectHost ==
    PastStep1 => response.url.host = _B2C_TENANT_HOST

\* C7: when the csrf token or the transaction id is missing from the
\* SETTINGS block of the identity provider's page, login() fails at step 2
\* and the credentials POST is never issued.
C7_TokenExtraction ==
    ( /\ response.http = "ok"
      /\ loginFail.step # 1
      /\ response.page.csrf = "" \/ response.page.transId = "" ) =>
        /\ loginFail.step = 2
        /\ loginResult = "False"
        /\ ~Issued("credentials_post")

\* the block has a csrf token but no transaction id
C7_Witness ==
    /\ response.page = Settings(TRUE, "csrf1", "")
    /\ loginFail = Fail(2, "tokens")
    /\ Kinds(reqs) = <<"login_post">>

\* C8: a login attempt issues its first request with an empty cookie jar,
\* and a success through the cookie fallback rests on a cookie that a
\* response of this very attempt has set.
C8_FreshCookieJar ==
    /\ pc = "step1" => cookies = {}
    /\ ( loginResult = "True" /\ ~InUrl(DashboardMark, final_url) ) =>
          \E d \in fresh : ProviderScoped(d)

----------------------------------------------------------------------------
(* Properties of get_data() *)

\* reqs[i] is a request of the retrieval proper, not of login()
IsFetchReq(i) == reqs[i].kind \in {"page_get", "download"}

\* C9: in every cycle get_data() has login() issue its requests before any
\* other request, and requests the download page or a report only after
\* login() returned True; a cycle whose login failed issued none of them
\* and returned None.
C9_LoginFirst ==
    caller = "get_data" =>
        /\ \A i \in 1..Len(reqs) : IsFetchReq(i) =>
              /\ loginResult = "True"
              /\ i > Len(LoginOrder)
              /\ Kinds(SubSeq(reqs, 1, Len(LoginOrder))) = LoginOrder
        /\ pc \in {"page", "pd", "bb"} => loginResult = "True"
        /\ result # Unset => loginResult # "none"
        /\ loginResult = "False" =>
              /\ result = None
              /\ pc = "idle"
              /\ \A i \in 1..Len(reqs) : ~IsFetchReq(i)

\* the second cycle in a row: its login failed on the last step and it
\* returned None without asking for the download page
C9_Witness ==
    /\ calls = 2
    /\ caller = "get_data"
    /\ loginFail = Fail(6, "incomplete")
    /\ result = None
    /\ Kinds(reqs) = LoginOrder

\* the tag of the page carries the token under the name of the field
HasToken(tag, token) ==
    /\ \E i \in 1..Len(tag) : tag[i] = Attr("name", TokenFieldName)
    /\ \E i \in 1..Len(tag) : tag[i] = Attr("value", token)

\* C10: the requests of a cycle are a prefix of: the four login requests,
\* the download page GET, the PD download, the BB download; both downloads
\* carry the token of the page fetched in this cycle; when the page yields
\* no token the cycle has returned None and issued no download.
C10_CycleOrder ==
    caller = "get_data" =>
        /\ Len(reqs) <= Len(CycleOrder)
        /\ Kinds(reqs) = SubSeq(CycleOrder, 1, Len(reqs))
        /\ Len(reqs) >= 6 => reqs[6].dataCategory = "PD"
        /\ Len(reqs) >= 7 => reqs[7].dataCategory = "BB"
        /\ \A i \in 1..Len(reqs) : reqs[i].kind = "download" =>
              /\ reqs[i].token # ""
              /\ \E t \in 1..Len(page_tags) : HasToken(page_tags[t], reqs[i].token)
        /\ ( Issued("page_get") /\ verification_token = "" ) =>
              /\ result = None
              /\ pc = "idle"
              /\ ~Issued("download")

\* a second cycle that ran to the end, with the token of its own page on
\* both downloads
C10_Witness ==
    /\ calls = 2
    /\ caller = "get_data"
    /\ Kinds(reqs) = CycleOrder
    /\ page_tags = <<TokenTag(""), TokenTag("rvt2")>>
    /\ reqs[6].token = "rvt2"
    /\ reqs[7].token = "rvt2"

----------------------------------------------------------------------------
(* Properties of a get_data() cycle: partial results and failures *)

\* The cycle has returned
Finished == caller = "get_data" /\ pc = "idle" /\ result # Unset

\* A billing (BB) download is among the requests of this cycle
BillingIssued ==
    \E i \in 1..Len(reqs) : reqs[i].kind = "download" /\ reqs[i].dataCategory = "BB"

\* The billing download brought a file every row of which is well formed
GoodBill ==
    /\ billing_data.kind = "rows"
    /\ billing_data.rows # <<>>
    /\ \A i \in 1..Len(billing_data.rows) :
           /\ billing_data.rows[i].BillIssueDate.kind = "ok"
           /\ billing_data.rows[i].TotalCharges.kind \in {"ok", "money"}
           /\ billing_data.rows[i].ConsumptionKwh.kind = "ok"

\* The usage download brought rows, and the loop over them ran to its end
GoodUsage ==
    /\ usage_data.kind = "rows"
    /\ usage_data.rows # <<>>
    /\ ~UsageRaises(rev, usage_data.rows)

\* C11: when the usage fetch ends with no data available, an unexpected
\* content type or no .csv file in the archive, the billing fetch is still
\* issued in the same cycle, and if it brings a well-formed bill the cycle
\* returns the billing summary.
C11_BillingAfterUsageFailure ==
    usage_data.why \in {"nodata", "ctype", "nocsv"} =>
        /\ pc \in {"bb", "idle"}
        /\ pc = "idle" => BillingIssued
        /\ (pc = "idle" /\ GoodBill) =>
               /\ result.status = "data"
               /\ result.billing.present
               /\ result.billing = billing_stats
               /\ ~result.usage.present

C11_Witness ==
    /\ usage_data.why = "ctype"
    /\ Finished
    /\ GoodBill
    /\ result.status = "data"
    /\ result.billing.present

\* Something raised in the cycle after login: a request failed, an answer
\* could not be decoded, or a row raised out of the usage loop or out of the
\* billing block
Raised ==
    \/ \E i \in 1..Len(http) : http[i] = "error"
    \/ usage_data.kind = "raise"
    \/ billing_data.kind = "raise"
    \/ UsageRaises(rev, usage_data.rows)
    \/ BillingRaises(billing_data.rows)

C13_NetworkFailureNoResult ==
    (caller = "get_data" /\ \E i \in 1..Len(http) : http[i] = "error") =>
        /\ pc = "idle"
        /\ result = None
        /\ \A i \in 1..Len(http) : http[i] = "error" => i = Len(http)

C13_Witness ==
    /\ caller = "get_data"
    /\ usage_stats.present
    /\ Len(http) = Len(CycleOrder)
    /\ http[Len(http)] = "error"
    /\ result = None

\* C14: a fetch that finds a missing archive, an empty payload or an archive
\* with no .csv member returns an absent row list without raising, the
\* other category is still fetched, and the cycle is not failed as a whole.
C14_CategoryScopedFailure ==
    /\ usage_data.why \in {"empty", "nocsv"} =>
           /\ usage_data.kind = "none"
           /\ pc \in {"bb", "idle"}
           /\ pc = "idle" => BillingIssued
           /\ (pc = "idle" /\ GoodBill) => result.status = "data"
    /\ billing_data.why \in {"empty", "nocsv"} =>
           /\ billing_data.kind = "none"
           /\ GoodUsage => result.status = "data"

----------------------------------------------------------------------------
(* Properties of the usage block *)

\* The usage block has run to its end and left its summaries
Summarised == pc = "bb" /\ usage_data.kind = "rows" /\ usage_data.rows # <<>>

\* A row both cells of which parse
WellFormed(row) == row.Consumption.kind = "ok" /\ row.DateTime.kind = "ok"

\* The rows that parse, in the order of the file
ValidRows == SelectSeq(usage_data.rows, WellFormed)

\* The dates that have a reading, and the number of readings of a date
DatesOf(v) == { v[i].DateTime.dt.date : i \in 1..Len(v) }

CountIn(v, d) == Cardinality({ i \in 1..Len(v) : v[i].DateTime.dt.date = d })

DatesRead == DatesOf(ValidRows)

CountOn(d) == CountIn(ValidRows, d)

\* The sum of the readings dated in a set of dates
TotalIn(v, dates) ==
    Sum([i \in 1..Len(v) |->
            IF v[i].DateTime.dt.date \in dates THEN v[i].Consumption.num ELSE 0])

TotalOn(dates) == TotalIn(ValidRows, dates)

\* d is an earlier calendar date than e
Earlier(d, e) ==
    \/ d.y < e.y
    \/ d.y = e.y /\ d.m < e.m
    \/ d.y = e.y /\ d.m = e.m /\ d.d < e.d

LatestOf(dates) == CHOOSE d \in dates : \A e \in dates : ~Earlier(d, e)

\* r is x rounded to 3 decimal places (both in ten-thousandths)
Rounded(x, r) == r % 10 = 0 /\ r - x <= 5 /\ x - r <= 5

\* The dates with at least 96 readings
CountedFullIn(v) == { d \in DatesOf(v) : CountIn(v, d) >= 96 }

CountedFull == CountedFullIn(ValidRows)

\* The quarter hours of a date that have a reading, and the dates with a
\* reading at each of the 96 quarter hours
SlotsIn(v, d) ==
    { v[i].DateTime.dt.slot : i \in { j \in 1..Len(v) : v[j].DateTime.dt.date = d } }

CompleteIn(v) == { d \in DatesOf(v) : 0..95 \subseteq SlotsIn(v, d) }

Complete == CompleteIn(ValidRows)

\* The same summaries, whether or not there is a usage_stats at all
SameSummaries(a, b) ==
    /\ a.daily_usage = b.daily_usage
    /\ a.weekly_usage = b.weekly_usage
    /\ a.monthly_usage = b.monthly_usage
    /\ a.latest_data_timestamp = b.latest_data_timestamp
    /\ a.interval_readings = b.interval_readings
    /\ a.total_consumption = b.total_consumption

\* C15: a usage row that fails to parse is skipped on its own: the block
\* runs to its end, the interval readings are the rows that parse, and the
\* summaries are those of the file without the rows that do not parse.
C15_BadRowsSkipped ==
    (pc # "usage" /\ usage_data.rows # <<>>) =>
        /\ pc = "bb"
        /\ result # None
        /\ rev = "component" => Len(usage_stats.interval_readings) = Len(ValidRows)
        /\ SameSummaries(usage_stats, UsageStats(rev, ValidRows, today))

\* C16 as stated: the most recent full day is the latest date with at least
\* 96 readings, daily_usage is the sum of the readings of that date, and it
\* is 0 when no date has at least 96 readings.
C16_DailyIsSum ==
    Summarised =>
        usage_stats.daily_usage =
            IF CountedFull = {} THEN 0 ELSE TotalOn({LatestOf(CountedFull)})

\* C16, amended: the most recent full day is the latest date with at least
\* 96 readings, daily_usage is the sum of the readings of that date rounded
\* to 3 decimal places, and it is 0 when no date has at least 96 readings.
C16_DailyIsRoundedSum ==
    Summarised =>
        IF CountedFull = {} THEN usage_stats.daily_usage = 0
        ELSE Rounded(TotalOn({LatestOf(CountedFull)}), usage_stats.daily_usage)

\* A full day followed by a later date of fewer readings
C16_Witness ==
    /\ Summarised
    /\ CountedFull # {}
    /\ \E d \in DatesRead : Earlier(LatestOf(CountedFull), d)
    /\ usage_stats.daily_usage # 0
    /\ usage_stats.daily_usage # TotalOn({LatestOf(CountedFull)})

\* C17: a date is taken as most recent full day only if it has a reading at
\* every one of the 96 quarter hours; a date of 96 or more rows that leave a
\* quarter hour empty is not chosen.
C17_FullDayHasEverySlot ==
    Summarised =>
        IF Complete = {} THEN usage_stats.daily_usage = 0
        ELSE Rounded(TotalOn({LatestOf(Complete)}), usage_stats.daily_usage)

\* The dates from six days before d through d
WeekEnding(d) == { e \in DatesRead : Ordinal(d) - 6 <= Ordinal(e) /\ Ordinal(e) <= Ordinal(d) }

\* C18 as stated: with a most recent full day D, weekly_usage is the sum of
\* all readings dated D-6 through D.
C18_WeeklyIsSum ==
    (Summarised /\ CountedFull # {}) =>
        usage_stats.weekly_usage = TotalOn(WeekEnding(LatestOf(CountedFull)))

\* C18, amended: with a most recent full day D, weekly_usage is the sum,
\* rounded to 3 decimal places, of all readings dated D-6 through D,
\* incomplete days counted in full, readings after D or before D-6 left out.
C18_WeeklyIsRoundedSum ==
    (Summarised /\ CountedFull # {}) =>
        Rounded(TotalOn(WeekEnding(LatestOf(CountedFull))), usage_stats.weekly_usage)

\* A week with an incomplete day at D-6, a reading at D-7 and one after D
C18_Witness ==
    /\ Summarised
    /\ CountedFull # {}
    /\ \E e \in DatesRead :
           Ordinal(e) = Ordinal(LatestOf(CountedFull)) - 6 /\ CountOn(e) < 96
    /\ \E e \in DatesRead : Ordinal(e) = Ordinal(LatestOf(CountedFull)) - 7
    /\ \E e \in DatesRead : Earlier(LatestOf(CountedFull), e)
    /\ usage_stats.weekly_usage > usage_stats.daily_usage

\* The dates of the six days before d that have a reading
SixBefore(d) == WeekEnding(d) \ {d}

\* C19 as stated: weekly_usage is at least daily_usage whenever one of the
\* 6 days before the chosen day has a reading, and equal to it when none has.
C19_WeeklyAtLeastDaily ==
    (Summarised /\ CountedFull # {}) =>
        IF SixBefore(LatestOf(CountedFull)) # {}
        THEN usage_stats.weekly_usage >= usage_stats.daily_usage
        ELSE usage_stats.weekly_usage = usage_stats.daily_usage

NoNegativeIn(v) == \A i \in 1..Len(v) : v[i].Consumption.num >= 0

NoNegativeReading == NoNegativeIn(ValidRows)

\* C19, amended: for readings none of which is negative, weekly_usage is at
\* least daily_usage whenever one of the 6 days before the chosen day has a
\* reading; for all readings weekly_usage equals daily_usage when none has.
C19_WeeklyAtLeastDailyNonNegative ==
    (Summarised /\ CountedFull # {}) =>
        IF SixBefore(LatestOf(CountedFull)) # {}
        THEN NoNegativeReading => usage_stats.weekly_usage >= usage_stats.daily_usage
        ELSE usage_stats.weekly_usage = usage_stats.daily_usage

C19_Witness ==
    /\ Summarised
    /\ CountedFull # {}
    /\ SixBefore(LatestOf(CountedFull)) # {}
    /\ NoNegativeReading
    /\ usage_stats.weekly_usage > usage_stats.daily_usage
    /\ usage_stats.daily_usage > 0

\* The dates read that lie in the calendar month before the month of "today"
InMonthBefore ==
    { d \in DatesRead :
        IF today.m = 1 THEN d.y = today.y - 1 /\ d.m = 12
        ELSE d.y = today.y /\ d.m = today.m - 1 }

\* C20 as stated: monthly_usage is the sum of all readings dated in the
\* calendar month before the month of "today".
C20_MonthlyIsSum ==
    Summarised => usage_stats.monthly_usage = TotalOn(InMonthBefore)

\* C20, amended: monthly_usage is the sum, rounded to 3 decimal places, of
\* all readings dated in the calendar month before the month of "today",
\* for every "today" and whether or not a full day exists.
C20_MonthlyIsRoundedSum ==
    Summarised => Rounded(TotalOn(InMonthBefore), usage_stats.monthly_usage)

\* "today" in January, readings in December and outside it, no full day
C20_Witness ==
    /\ Summarised
    /\ today.m = 1
    /\ CountedFull = {}
    /\ InMonthBefore # {}
    /\ DatesRead \ InMonthBefore # {}
    /\ usage_stats.monthly_usage > 0
    /\ usage_stats.daily_usage = 0

----------------------------------------------------------------------------
(* Properties of the billing block *)

\* The billing block has run over a downloaded export
BillingEnded == pc = "idle" /\ billing_data.kind = "rows"

Bills == billing_data.rows

\* Both summary figures are those of row i
TakenFrom(i) ==
    /\ billing_stats.last_bill_total_charges = CellNumber(Bills[i].TotalCharges)
    /\ billing_stats.last_bill_total_usage = CellNumber(Bills[i].ConsumptionKwh)

IssuedOn(i) == DateKey(Bills[i].BillIssueDate.dt.date)

\* C21: whatever the order of the rows of the export, the charges and the
\* usage of the billing summary are those of a row whose issue date is
\* greater than or equal to the issue date of every other row
C21_LatestBillSummarised ==
    BillingEnded /\ billing_stats.present
    => \E i \in 1..Len(Bills) :
           /\ TakenFrom(i)
           /\ \A j \in 1..Len(Bills) : IssuedOn(j) <= IssuedOn(i)

\* A summary taken from the last of three bills, the first being older and
\* different in both figures
C21_Witness ==
    /\ BillingEnded
    /\ billing_stats.present
    /\ Len(Bills) = 3
    /\ TakenFrom(3)
    /\ IssuedOn(1) < IssuedOn(3)
    /\ IssuedOn(2) < IssuedOn(3)
    /\ ~TakenFrom(1)
    /\ ~TakenFrom(2)

\* avg times 100 * usage is the charges in cents: avg is charges / usage
\* in dollars per kWh
IsChargesOverUsage(avg) ==
    /\ avg.den > 0
    /\ avg.num * 100 * billing_stats.last_bill_total_usage
           = billing_stats.last_bill_total_charges * avg.den

HasAvgCost == BillingEnded /\ "avg_cost_per_kwh" \in billing_stats.keys

\* C22 as stated: avg_cost_per_kwh is 0 when the usage of the latest bill
\* is 0 and charges divided by usage otherwise
C22_AvgCostIsQuotient ==
    HasAvgCost
    => IF billing_stats.last_bill_total_usage = 0
       THEN billing_stats.avg_cost_per_kwh = ZeroRatio
       ELSE IsChargesOverUsage(billing_stats.avg_cost_per_kwh)

\* C22, amended: avg_cost_per_kwh is 0 when the usage of the latest bill is
\* 0 or negative and charges divided by usage when it is positive; the block
\* never ends on a division by zero; the legacy revision reports no
\* avg_cost_per_kwh, and a total_cost only for a positive usage
C22_AvgCostIsQuotientOfPositiveUsage ==
    /\ BillingEnded => BillingError(Bills) # "ZeroDivisionError"
    /\ HasAvgCost
       => IF billing_stats.last_bill_total_usage > 0
          THEN IsChargesOverUsage(billing_stats.avg_cost_per_kwh)
          ELSE billing_stats.avg_cost_per_kwh = ZeroRatio
    /\ BillingEnded /\ billing_stats.present
       => /\ "avg_cost_per_kwh" \in billing_stats.keys <=> rev = "component"
          /\ "total_cost" \in billing_stats.keys
                 <=> rev = "legacy" /\ billing_stats.last_bill_total_usage > 0

\* The bill of "$123.45" for 500 kWh gives 0.2469
C22_Witness ==
    /\ HasAvgCost
    /\ billing_stats.last_bill_total_charges = 12345
    /\ billing_stats.last_bill_total_usage = 500
    /\ billing_stats.avg_cost_per_kwh = [num |-> 2469, den |-> 10000]

\* The export has rows and no BillIssueDate column
LacksIssueDate ==
    /\ BillingEnded
    /\ Bills # <<>>
    /\ Bills[1].BillIssueDate.kind = "missing"

\* C23: when the billing export lacks the issue-date column the billing
\* summary is empty, nothing is raised, and the usage summary computed
\* earlier in the cycle is what the cycle returns, unchanged
C23_NoIssueDateColumn ==
    LacksIssueDate
    => /\ billing_stats = NoStats
       /\ usage_stats = UsageStats(rev, usage_data.rows, today)
       /\ usage_stats.present
          => /\ result.status = "data"
             /\ result.usage = usage_stats
             /\ result.billing = NoStats

\* A cycle whose usage summary is returned beside an empty billing summary
\* because the billing export has no BillIssueDate column
C23_Witness ==
    /\ LacksIssueDate
    /\ usage_stats.present
    /\ result.status = "data"
    /\ result.usage = usage_stats
    /\ ~result.billing.present

\* A row of which the issue date, the charges and the usage all convert
WellFormedBill(row) ==
    /\ row.BillIssueDate.kind = "ok"
    /\ row.TotalCharges.kind \in {"ok", "money", "missing"}
    /\ row.ConsumptionKwh.kind \in {"ok", "missing"}

\* C24 as stated: a malformed bill row is skipped and never aborts the
\* batch; the billing summary is the one of the remaining well-formed rows
C24_BadBillsSkipped ==
    BillingEnded /\ Bills # <<>> /\ Bills[1].BillIssueDate.kind # "missing"
    => LET good == SelectSeq(Bills, WellFormedBill) IN
       /\ result # None \/ ~usage_stats.present
       /\ billing_stats = BillingStats(rev, good, TotalSoFar(rev, usage_data))

----------------------------------------------------------------------------
(* Properties of the statistics import *)

\* The runs of _import_statistics() that have ended, the last of each sensor
Runs == { last_import[s] : s \in { x \in Sensors : last_import[x].ran } }

\* The time of a reading, in minutes UTC
TimeOf(reading) == astimezone(reading.datetime)

\* The hour a reading falls in
HourOf(reading) == TimeOf(reading) - (TimeOf(reading) % 60)

\* What the readings of a run newer than a time and in hours up to an hour
\* add up to
AddedBy(run, after, upto) ==
    Sum([i \in 1..Len(run.readings) |->
            IF TimeOf(run.readings[i]) > after /\ HourOf(run.readings[i]) <= upto
            THEN Amount(run.sensor, run.readings[i], run.avg_cost) ELSE 0])

\* The hours of the readings of a run newer than a time
HoursAfter(run, after) ==
    { HourOf(run.readings[i]) :
        i \in { k \in 1..Len(run.readings) : TimeOf(run.readings[k]) > after } }

\* The hour-starts of the points a run emitted
Emitted(run) == { run.stats[k].start : k \in 1..Len(run.stats) }

\* The hour-start of the latest point a run found
LastHour(run) == run.last_stat_row.start \div 60

\* C25: when the latest point of the series has hour-start H and sum S, the
\* import resumes from H + 1 hour with running base S: readings at or before
\* H + 1 hour add nothing, and only hours after H are emitted
C25_ResumesAfterCoveredHour ==
    \A run \in Runs :
        run.last_stat_row.found
        => /\ run.filter_time = LastHour(run) + 60
           /\ run.starting_sum = run.last_stat_row.sum
           /\ Emitted(run) = HoursAfter(run, LastHour(run) + 60)
           /\ \A h \in Emitted(run) : h > LastHour(run)
           /\ \A k \in 1..Len(run.stats) :
                  run.stats[k].sum
                      = run.last_stat_row.sum
                        + AddedBy(run, LastHour(run) + 60, run.stats[k].start)

\* The example: latest point 10:00 with sum 50.0, readings 10:30 (2.0) and
\* 11:15 (3.0); only the 11:00 bucket is emitted, with sum 53.0
C25_Witness ==
    \E run \in Runs :
        /\ run.sensor = "consumption"
        /\ run.last_stat_row.found
        /\ run.last_stat_row.sum = 500000
        /\ run.readings = <<ReadingMenu[1], ReadingMenu[3]>>
        /\ run.stats = <<[start |-> LastHour(run) + 60, sum |-> 530000]>>

\* C26: when the series has no point, the resume point is now minus
\* backfill_days days and the running base is 0; readings at or older than
\* the resume point add nothing
C26_BackfillWindow ==
    \A run \in Runs :
        ~run.last_stat_row.found
        => /\ run.filter_time = run.now - backfill_days * 24 * 60
           /\ run.starting_sum = 0
           /\ Emitted(run) = HoursAfter(run, run.now - backfill_days * 24 * 60)
           /\ \A k \in 1..Len(run.stats) :
                  run.stats[k].sum
                      = AddedBy(run, run.now - backfill_days * 24 * 60,
                                run.stats[k].start)

\* A backfill that leaves out a reading taken exactly backfill_days days
\* before now, and emits a newer one
C26_Witness ==
    \E run \in Runs :
        /\ ~run.last_stat_row.found
        /\ \E i \in 1..Len(run.readings) :
               TimeOf(run.readings[i]) = run.now - backfill_days * 24 * 60
        /\ Len(run.stats) = 1
        /\ run.stats[1].sum = 30000

\* C27: an import emits one point per hour holding a reading newer than the
\* resume point, in strictly ascending order of hour-start, and the sum of
\* each point is the running base plus the readings newer than the resume
\* point in the hours up to its own
C27_OnePointPerHour ==
    \A run \in Runs :
        /\ Len(run.stats) = Cardinality(HoursAfter(run, run.filter_time))
        /\ Emitted(run) = HoursAfter(run, run.filter_time)
        /\ \A k \in 1..(Len(run.stats) - 1) : run.stats[k].start < run.stats[k + 1].start
        /\ \A k \in 1..Len(run.stats) :
               run.stats[k].sum
                   = run.starting_sum + AddedBy(run, run.filter_time, run.stats[k].start)

\* Two points, the second of an hour with two readings
C27_Witness ==
    \E run \in Runs :
        /\ Len(run.stats) = 2
        /\ run.stats[1].sum # run.starting_sum
        /\ \E i, k \in 1..Len(run.readings) :
               /\ i # k
               /\ HourOf(run.readings[i]) = run.stats[2].start
               /\ HourOf(run.readings[k]) = run.stats[2].start
               /\ TimeOf(run.readings[i]) > run.filter_time
               /\ TimeOf(run.readings[k]) > run.filter_time

\* No reading of the task is newer than its resume point
NoneNewer(task) ==
    \A i \in 1..Len(task.readings) :
        TimeOf(task.readings[i])
            <= (IF task.last_stat_row.found
                THEN task.last_stat_row.start \div 60 + 60
                ELSE now - backfill_days * 24 * 60)

\* C28: when no reading is newer than the resume point the import queues
\* nothing, the series is unchanged, and the value reported is the running
\* base: the sum of the latest point, or 0 without one
C28_NothingNewer ==
    [][\A i \in 1..Len(tasks) :
           _import_statistics(i) /\ NoneNewer(tasks[i])
           => /\ recorder_queue' = recorder_queue
              /\ statistics' = statistics
              /\ native_value'[tasks[i].sensor]
                     = [set |-> TRUE,
                        value |-> IF tasks[i].last_stat_row.found
                                  THEN tasks[i].last_stat_row.sum ELSE 0]]_vars

\* A run over readings none of which is newer than the hour after the latest
\* point: nothing is emitted and 50.0 is reported
C28_Witness ==
    \E run \in Runs :
        /\ run.last_stat_row.found
        /\ run.readings # <<>>
        /\ run.stats = <<>>
        /\ run.value = 500000
        /\ native_value[run.sensor] = [set |-> TRUE, value |-> 500000]

\* The run read the latest point after a run of the same input had ended
\* and its points were in the recorder
Replay(run) ==
    /\ run.previous.ran
    /\ run.settled
    /\ run.readings = run.previous.readings

\* C29: a second run with the same readings, once the points of the first
\* are stored, leaves the series unchanged: it emits no point
C29_ReplayEmitsNothing ==
    \A run \in Runs : Replay(run) => run.stats = <<>>

\* Every reading of the first list is in the second, which has more
Widens(readings, earlier) ==
    /\ Len(readings) > Len(earlier)
    /\ \A i \in 1..Len(earlier) : \E k \in 1..Len(readings) : readings[k] = earlier[i]

\* The run emits no point at or before a point of the run before it, and
\* reports no less
Extends(run) ==
    /\ run.value >= run.previous.value
    /\ \A k \in 1..Len(run.stats) : \A j \in 1..Len(run.previous.stats) :
           run.stats[k].start > run.previous.stats[j].start

\* C30: a run over a superset of the readings of the previous run never
\* decreases the final sum and leaves the previous points as they were
C30_WiderWindowExtends ==
    \A run \in Runs :
        run.previous.ran /\ Widens(run.readings, run.previous.readings)
        => Extends(run)

\* The task is the only import of its series: it read the latest point with
\* every earlier point stored and no other import under way, and the series
\* still ends with the point it read
Sequential(i) ==
    /\ tasks[i].settled
    /\ Settled(tasks[i].sensor, i)
    /\ get_last_statistics(statistics[tasks[i].sensor]) = tasks[i].last_stat_row

\* The points are later than every point of the series and in ascending order
LaterThan(series, stats) ==
    /\ \A k \in 1..Len(stats) : \A p \in series : timestamp(stats[k].start) > p.start
    /\ \A k \in 1..Len(stats) : \A j \in 1..Len(stats) :
           j < k => stats[j].start < stats[k].start

\* C31: in a sequence of sequential imports into one series every point an
\* import appends has an hour-start strictly later than every point already
\* in the series, and storing them leaves every existing point as it was
C31_AppendsLater ==
    [][\A i \in 1..Len(tasks) :
           _import_statistics(i) /\ Sequential(i)
           => LET s == tasks[i].sensor
                  stats == last_import'[s].stats
              IN  /\ LaterThan(statistics[s], stats)
                  /\ statistics[s] \subseteq Imported(statistics[s], stats)]_vars

\* The series holds the points of two imports, the second read after the
\* first was stored and resumed after its last point
C31_Witness ==
    \E run \in Runs :
        /\ run.settled
        /\ run.last_stat_row.found
        /\ run.previous.ran
        /\ run.previous.stats # <<>>
        /\ run.stats # <<>>
        /\ \A k \in 1..Len(run.stats) :
               [start |-> timestamp(run.stats[k].start), sum |-> run.stats[k].sum]
                   \in statistics[run.sensor]
        /\ \A k \in 1..Len(run.previous.stats) :
               [start |-> timestamp(run.previous.stats[k].start),
                sum |-> run.previous.stats[k].sum] \in statistics[run.sensor]

\* The imports of a series that have asked for its latest point and have not
\* yet handed their points to the recorder
Importing(s) ==
    { i \in 1..Len(tasks) : tasks[i].sensor = s /\ tasks[i].pc = "awaiting" }

\* C32: at most one import per series is ever between its read of the
\* latest point and its append
C32_OneImportPerSeries ==
    \A s \in Sensors : Cardinality(Importing(s)) <= 1

\* The run found a point that has a sum
FoundSum(run) == run.last_stat_row.found /\ run.last_stat_row.sum # NoSum

\* C35: the import resumes one hour after the latest point, with its sum as
\* the running base, only when that point exists and has a sum; when it is
\* missing or has no sum the import resumes from now - backfill_days with a
\* running base of 0
C35_ResumeOnlyWithSum ==
    \A run \in Runs :
        IF FoundSum(run)
        THEN /\ run.filter_time = fromtimestamp(run.last_stat_row.start) + 60
             /\ run.starting_sum = run.last_stat_row.sum
        ELSE /\ run.filter_time = run.now - backfill_days * 24 * 60
             /\ run.starting_sum = 0

\* The final sum of one import of the readings from the resume point and
\* running base of the first run
SingleImport(run) ==
    NativeValue(StatsToImport(run.sensor, run.readings, run.avg_cost,
                              run.origin.filter_time, run.origin.starting_sum),
                run.origin.starting_sum)

\* C36: after a sequence of imports over growing windows, one at a time, the
\* final cumulative sum of the consumption series is the one a single import
\* of the final window from the first resume point would produce
C36_NoReadingLost ==
    \A run \in Runs :
        run.sensor = "consumption" /\ run.serial => run.value = SingleImport(run)

\* The other sensor
Other(s) == CHOOSE o \in Sensors : o # s

\* coordinator.data holds readings and no usable avg_cost_per_kwh
NoUnitCost ==
    IF coordinator_data.present
    THEN /\ coordinator_data.interval_readings # <<>>
         /\ coordinator_data.avg_cost_per_kwh \in {NoAvgCost, 0}
    ELSE FALSE

\* The step leaves the series, the recorder's queue and the reported
\* values as they are
NothingImported ==
    /\ statistics' = statistics
    /\ recorder_queue' = recorder_queue
    /\ native_value' = native_value
    /\ last_import' = last_import

\* C40: the two series are imported independently. An import reads the
\* latest point of its own series, queues points for its own series only and
\* leaves the series and the reported value of the other sensor alone; with
\* an avg_cost_per_kwh that is missing or zero the cost handler returns
\* before the import, the cost series and the cost sensor's value stay as
\* they are, and the consumption handler goes on to its import
C40_SeriesIndependent ==
    [][/\ \A i \in 1..Len(tasks) :
              _async_handle_statistics_update(i)
              => IF tasks[i].sensor = "cost" /\ NoUnitCost
                 THEN tasks' = Remove(tasks, i) /\ NothingImported
                 ELSE IF tasks[i].sensor = "consumption" /\ NoUnitCost
                 THEN /\ tasks'[i].pc = "awaiting"
                      /\ tasks'[i].last_stat_row
                             = get_last_statistics(statistics["consumption"])
                 ELSE Len(tasks') = Len(tasks)
                      => tasks'[i].last_stat_row
                             = get_last_statistics(statistics[tasks[i].sensor])
       /\ \A s \in Sensors :
              async_added_to_hass(s)
              => IF s = "cost" /\ NoUnitCost
                 THEN tasks' = tasks /\ NothingImported
                 ELSE Len(tasks') > Len(tasks)
                      => /\ tasks'[Len(tasks')].sensor = s
                         /\ tasks'[Len(tasks')].last_stat_row
                                = get_last_statistics(statistics[s])
       /\ \A i \in 1..Len(tasks) :
              _import_statistics(i)
              => LET s == tasks[i].sensor IN
                 /\ statistics' = statistics
                 /\ native_value'[Other(s)] = native_value[Other(s)]
                 /\ last_import'[Other(s)] = last_import[Other(s)]
                 /\ last_import'[s].last_stat_row = tasks[i].last_stat_row
                 /\ \A k \in 1..Len(recorder_queue') :
                        k > Len(recorder_queue) => recorder_queue'[k].statistic_id = s
       /\ async_import_statistics
              => LET s == Head(recorder_queue).statistic_id IN
                 /\ statistics'[Other(s)] = statistics[Other(s)]
                 /\ native_value' = native_value]_vars

\* Both sensors were added with readings and an avg_cost_per_kwh that is
\* missing or zero: the consumption import ran and its point is stored, the
\* cost import did not run and the cost sensor reports nothing
C40_Witness ==
    /\ NoUnitCost
    /\ added = Sensors
    /\ tasks = <<>>
    /\ recorder_queue = <<>>
    /\ last_import["consumption"].ran
    /\ last_import["consumption"].stats # <<>>
    /\ ~last_import["cost"].ran
    /\ native_value["cost"] = [set |-> FALSE]
    /\ statistics["consumption"] # statistics["cost"]

\* C33: once the options are saved and the integration is set up again, the
\* importer's backfill window and the coordinator's interval are the saved
\* option values
C33_OptionsOverride ==
    (setup.loaded /\ setup.options.saved)
        => /\ backfill_days = setup.options.backfill_days
           /\ update_interval = setup.options.update_interval_hours

\* The <input> tags the current call has received: those of the confirmation
\* page and those of the download page
TagsSeen ==
    { confirmed_response.page.tags[i] : i \in 1..Len(confirmed_response.page.tags) }
    \cup { page_tags[i] : i \in 1..Len(page_tags) }

\* The attributes of a tag in every order
Orders(tag) == Arrangements({ tag[i] : i \in 1..Len(tag) }, Len(tag))

\* C34: the extraction of the form fields and of the request verification
\* token does not depend on the order of the attributes: every ordering of
\* the name, value and type attributes of an input tag yields the same
\* name/value pair and the same token
C34_AttributeOrderIrrelevant ==
    \A tag \in TagsSeen : \A other \in Orders(tag) :
        /\ ParseInputs(rev, <<other>>) = ParseInputs(rev, <<tag>>)
        /\ GetVerificationToken(rev, <<other>>) = GetVerificationToken(rev, <<tag>>)

\* C37: the usage fetch range [today - fetch_days, today] contains every day
\* of the calendar month before today's, so that monthly_usage is computed
\* over the whole month
C37_FetchCoversPreviousMonth ==
    /\ StartDate(rev, today, backfill_days) <= Ordinal(PrevMonth(today).first)
    /\ Ordinal(PrevMonth(today).last) <= Ordinal(today)

\* C38: when the usage export has rows and none of them parses, the usage
\* block still ends with a summary: daily_usage, weekly_usage and
\* monthly_usage 0, no latest timestamp and an empty list of readings, and
\* the cycle goes on as a success
C38_UnparsedExportIsSuccess ==
    (pc # "usage" /\ usage_data.rows # <<>> /\ ValidRows = <<>>) =>
        /\ pc = "bb"
        /\ result # None
        /\ usage_stats.present
        /\ usage_stats.daily_usage = 0
        /\ usage_stats.weekly_usage = 0
        /\ usage_stats.monthly_usage = 0
        /\ usage_stats.latest_data_timestamp = NoDateTime
        /\ rev = "component" => usage_stats.interval_readings = <<>>

\* A step of login() raised: a request failed or an answer of the sign-in
\* service could not be decoded
LoginRaised == loginFail.why \in {"network", "exception"}

\* C39: login() and get_data() never let an exception reach the caller:
\* login() ends with True or False and get_data() with a summary or None,
\* a login() in which a step raised returns False, and a get_data() in
\* which the login or any later step raised returns None
C39_NoExceptionPropagates ==
    /\ loginResult \in {"none", "True", "False"}
    /\ result.status \in {"unset", "None", "data"}
    /\ LoginRaised =>
           /\ pc = "idle"
           /\ loginResult = "False"
           /\ caller = "get_data" => result = None
    /\ (caller = "get_data" /\ Raised) =>
           /\ pc = "idle"
           /\ result = None

C39_Witness ==
    /\ Finished
    /\ loginResult = "True"
    /\ usage_stats.present
    /\ billing_data.kind = "raise"
    /\ billing_data.why = "corrupt"
    /\ result = None

====
